---- MODULE Spec2Model ----
(***************************************************************************)
(* State-machine model of the Matrix E2EE session facade (MatrixClient in  *)
(* extensions/matrix-js/src/matrix/sdk.ts) together with the decrypt retry *)
(* bridge it drives.                                                       *)
(*                                                                         *)
(* Two specifications share the variables:                                 *)
(*   Spec         the event bridge: one start(), backend emissions,        *)
(*                decryption results, retry timers, key-available signals  *)
(*                and stop();                                              *)
(*   SpecSession  the crypto lifecycle: start, prepareForOneOff,           *)
(*                restoreRoomKeyBackup and bootstrapOwnDeviceVerification  *)
(*                interleaved at their await points with stop() and the    *)
(*                periodic persistence timer.                              *)
(*                                                                         *)
(* MatrixDecryptBridge (sdk/decrypt-bridge.ts) and MatrixCryptoBootstrapper*)
(* (sdk/crypto-bootstrap.ts) are imported by sdk.ts but their sources are  *)
(* not available; their operations are modelled from the specification     *)
(* (section 4.2, 4.3 and 5) and from the behaviour sdk.test.ts asserts.    *)
(***************************************************************************)
EXTENDS Integers, FiniteSets, Sequences, TLC

\* ------------------------------------------------------------------ bounds
\* How often the backend emits one event on the client "event" stream.
MaxEmits == 2
\* How often one event can (re-)enter the pending map.
MaxTrackings == 1
\* How often the application calls stop().
MaxStops == 1
\* How many verification and backup operations the application calls in a row.
MaxCalls == 2
\* How many redirects a server answers one request with.
MaxRedirects == 2
\* How many seconds pass on the pool manager's clock.
MaxTime == 3
\* Emissions of room.invite and room.join followed per room.
MaxInvites == 2

\* ------------------------------------------------------- program constants
\* Hard cap on retry attempts per tracked event.
MATRIX_DECRYPT_RETRY_MAX_ATTEMPTS == 8

\* The (room id, event id) pairs the backend emits: two events of one room.
Keys == {"$event1", "$event2"}

Ops == {"start", "prepareForOneOff", "restoreRoomKeyBackup", "bootstrapOwnDeviceVerification"}

EventNames == {"room.event", "room.encrypted_event", "room.decrypted_event",
               "room.message", "room.failed_decryption"}

\* An absent entry of the pending map. Besides the attempt count, the armed timer and
\* the in-flight flag, an entry records (history only, never read by the bridge) how
\* many backend retry calls it has made and what started the last one.
NoEntry == [attempts |-> 0, timer |-> FALSE, inFlight |-> FALSE, calls |-> 0, startedBy |-> "none"]

NewEntry == [attempts |-> 1, timer |-> TRUE, inFlight |-> FALSE, calls |-> 0, startedBy |-> "none"]

\* A value that is true, false or unknown (null).
Tri == {"true", "false", "null"}

\* The options of a bootstrap(crypto) call made without options.
DefaultBootstrap == [forceResetCrossSigning |-> FALSE, strict |-> FALSE]

\* No report of a first bootstrap attempt is being acted on.
NoReport == [crossSigningPublished |-> TRUE, ownDeviceVerified |-> "none"]

\* start() has made no bootstrap call.
NoAttempts == [attempts |-> 0, forcedReset |-> "none"]

\* null where a string is expected.
Null == "<null>"

\* The strings a version or an error text is drawn from: null, empty, non-empty.
Texts == {Null, "", "1"}

\* JavaScript truthiness of a `string | null` value.
Truthy(text) == text \notin {Null, ""}

\* undefined where an optional string is expected.
Undefined == "<undefined>"

\* The messages a failing backend call or recovery-key step is rejected with: an
\* Error may carry an empty message.
ErrorTexts == {"", "boom"}

\* The verification and backup operations of the facade.
ApiOps == {"getRoomKeyBackupStatus", "restoreRoomKeyBackup",
           "bootstrapOwnDeviceVerification", "verifyWithRecoveryKey"}

\* What the caller passes as recovery key.
RecoveryKeys == {"blank", "valid", "malformed"}

\* No issue resolved yet.
NoIssue == [code |-> "none", summary |-> "", message |-> <<>>]

VARIABLES
  \* the CLI's backup diagnosis (cli.ts)
  backup,                  \* the MatrixCliBackupStatus snapshot handed to resolveBackupIssue
  issue,                   \* the MatrixCliBackupIssue it returned, NoIssue before the call
  \* verification and backup operations (sdk.ts:559-904)
  api,                     \* the operation running, the await it is suspended at, and the
                           \* number of operations called so far
  locals,                  \* the local variables of the operation running
  result,                  \* how the last operation settled and the value it returned
  serverBackup,            \* number of room-key backup versions created on the homeserver;
                           \* the current version is the last one, 0: no backup
  caps,                    \* which optional methods the crypto backend has
  hist,                    \* history of the operation running: calls made, values read
  \* bootstrap readiness (sdk.ts:104-113, 800-839, 889-895)
  deviceStatus,            \* what crypto.getDeviceVerificationStatus answered for the own device
  crossSigning,            \* cross-signing: ready locally, and what /keys/query answered
  readiness,               \* the readiness evaluated from them, NoReadiness before
  \* hardened transport (sdk.ts:487-502 and the authed HTTP client behind it)
  request,                 \* the doRequest call: its endpoint, its options, how it ended
  fetches,                 \* the network calls made for it, in order: URL origin and
                           \* whether the Authorization header was sent
  deadline,                \* the request's timeout: "unset", "armed" or "passed"
  \* recovery-key store (sdk.ts:179) and what leaves the process
  storedRecoveryKey,       \* the recovery-key record on disk, NoRecord without one
  twinRecoveryKey,         \* the record of a second session that is given the same
                           \* calls with other key material
  secretStorageKey,        \* the last call of the secret-storage key callback
  exposed,                 \* the last status, summary, result or CLI output
  twinExposed,             \* the same of the second session
  \* agent pool (pool-lib.sh, pool-manager.sh, pool-handler.sh)
  agents,                  \* state.json: per recorded agent its last_active time
  clock,                   \* the time `date` gives
  handlers,                \* per connection handler: where it is, the agent it was
                           \* asked for, the victim it chose
  boot,                    \* the manager's boot: the lines of autostart.txt left,
                           \* the autostart counters, and whether it listens
  containers,              \* the agents whose container docker reports as running
  activity,                \* the agents with a file in the activity directory
  \* a verification command of the CLI (cli.ts:211-236)
  exitCode,                \* process.exitCode
  command,                 \* the command run, how its action ended, what it printed
  \* invites and joins (sdk.ts:1015-1085)
  selfUserId,              \* the own user id the client or the options give, "" if none
  rooms,                   \* per room of the SDK's store: getMyMembership()
  roomEmits,               \* per room: emissions of room.invite and of room.join
  bridgeInput,             \* the last input of the membership bridge
  \* constructor options (sdk.ts:152-179)
  encryptionEnabled,       \* opts.encryption === true
  password,                \* a non-blank opts.password is configured
  \* MatrixClient fields
  bridgeRegistered,        \* sdk.ts:130
  started,                 \* sdk.ts:131
  cryptoBootstrapped,      \* sdk.ts:132
  cryptoInitialized,       \* sdk.ts:135
  idbPersistTimer,         \* sdk.ts:252, TRUE when the field holds an interval handle
  pc,                      \* per operation: the await it is suspended at
  bootstrapReport,         \* what the first bootstrap attempt of start() reported, while
                           \* the forced reset it led to is awaited
  bootstrapOptions,        \* options of the bootstrap call start() is awaiting
  autoBootstrap,           \* history: bootstrap calls start() has made in the session,
                           \* and how the forced reset settled
  \* runtime and backend
  leakedTimers,            \* live intervals no field refers to any more
  clientRunning,           \* the SDK client syncs: startClient() resolved, no stopClient() since
  sdkEvent,                \* per event: "unseen", "undecrypted", "decrypted" or "plain"
  inFlightCalls,           \* per event: decryptEventIfNeeded calls not yet returned
  \* MatrixDecryptBridge state
  cryptoRetrySignalsBound, \* key-available listeners are attached to the crypto backend
  trackedEncryptedEvents,  \* events carrying the bridge's "decrypted" listener
  decryptRetries,          \* the pending map: per event an entry or NoEntry
  decryptedMessageDedupe,  \* event ids delivered through decryption
  \* the application's view: the emitter (sdk.ts:122)
  emitted,                 \* per event name and event: number of emissions
  messageRaw,              \* per event: type of the raw event the last room.message carried
  \* history
  stopCalls,               \* number of stop() calls
  finalPersists,           \* number of final persistence flushes started by stop()
  stopPersistPromise,      \* sdk.ts:141, the flush the field refers to (0: null)
  finalFlush,              \* per stop() call: "none", "pending", "ok" or "failed"
  stopAndPersistAwaits,    \* the flush a stopAndPersist() call awaits (0: no call)
  stopAndPersistResult,    \* how the last stopAndPersist() call settled
  opBegunAfterStop,        \* an operation was called after the last stop()
  lateTick,                \* a periodic persist ran after stop() with no operation begun since
  pendingAtStop,           \* events that had a pending entry when stop() ran
  inFlightAtStop,          \* events that had a retry in flight when stop() ran
  entriesCreated,          \* per event: number of pending entries created
  terminalCalls,           \* per event: retry calls its entry had made when the cap
                           \* removed it, 0 while it has not ended Failed-Terminal
  lastSignal               \* TRUE when the last step was the key-available handler

configVars == <<encryptionEnabled, password>>
sessionVars == <<bridgeRegistered, started, cryptoBootstrapped, cryptoInitialized,
                 idbPersistTimer, pc, leakedTimers, clientRunning>>
bridgeVars == <<cryptoRetrySignalsBound, trackedEncryptedEvents, decryptRetries,
                decryptedMessageDedupe>>
backendVars == <<sdkEvent, inFlightCalls>>
emitVars == <<emitted, messageRaw>>
stopHistory == <<stopCalls, finalPersists, stopPersistPromise, finalFlush, pendingAtStop,
                 inFlightAtStop>>
cliVars == <<backup, issue>>
apiVars == <<api, locals, result, serverBackup, caps, hist>>
readinessVars == <<deviceStatus, crossSigning, readiness>>
transportVars == <<request, fetches, deadline>>
storeVars == <<storedRecoveryKey>>
exposureVars == <<twinRecoveryKey, secretStorageKey, exposed, twinExposed>>
poolVars == <<agents, clock, handlers, boot>>
dockerVars == <<containers, activity>>
commandVars == <<exitCode, command>>
inviteVars == <<selfUserId, rooms, roomEmits, bridgeInput>>
sideVars == <<readinessVars, transportVars, exposureVars, poolVars, dockerVars, commandVars,
             inviteVars>>
callerVars == <<cliVars, apiVars, sideVars, storeVars>>
bootstrapHistory == <<bootstrapReport, bootstrapOptions, autoBootstrap>>
stopAndPersistVars == <<stopAndPersistAwaits, stopAndPersistResult>>
tickHistory == <<opBegunAfterStop, lateTick>>
retryHistory == <<entriesCreated, terminalCalls>>

vars == <<configVars, sessionVars, bridgeVars, backendVars, emitVars,
          stopHistory, stopAndPersistVars, bootstrapHistory, tickHistory, retryHistory,
          lastSignal, callerVars>>

\* ------------------------------------------------------------------- Init
\* The state right after `new MatrixClient(...)`.
InitFields ==
  /\ bridgeRegistered = FALSE
  /\ started = FALSE
  /\ cryptoBootstrapped = FALSE
  /\ cryptoInitialized = FALSE
  /\ idbPersistTimer = FALSE
  /\ pc = [op \in Ops |-> "idle"]
  /\ bootstrapReport = NoReport
  /\ autoBootstrap = NoAttempts
  /\ bootstrapOptions = DefaultBootstrap
  /\ leakedTimers = 0
  /\ clientRunning = FALSE
  /\ sdkEvent = [k \in Keys |-> "unseen"]
  /\ inFlightCalls = [k \in Keys |-> 0]
  /\ cryptoRetrySignalsBound = FALSE
  /\ trackedEncryptedEvents = {}
  /\ decryptRetries = [k \in Keys |-> NoEntry]
  /\ decryptedMessageDedupe = {}
  /\ emitted = [n \in EventNames |-> [k \in Keys |-> 0]]
  /\ messageRaw = [k \in Keys |-> "none"]
  /\ stopCalls = 0
  /\ finalPersists = 0
  /\ stopPersistPromise = 0
  /\ finalFlush = [i \in 1..MaxStops |-> "none"]
  /\ stopAndPersistAwaits = 0
  /\ stopAndPersistResult = "none"
  /\ opBegunAfterStop = FALSE
  /\ lateTick = FALSE
  /\ pendingAtStop = {}
  /\ inFlightAtStop = {}
  /\ entriesCreated = [k \in Keys |-> 0]
  /\ terminalCalls = [k \in Keys |-> 0]
  /\ lastSignal = FALSE

\* getRoomKeyBackupStatus with encryption disabled (sdk.ts:560-570).
DisabledBackupStatus ==
  [serverVersion |-> Null, activeVersion |-> Null, trusted |-> "null",
   matchesDecryptionKey |-> "null", decryptionKeyCached |-> "null",
   keyLoadAttempted |-> FALSE, keyLoadError |-> Null]

\* No operation is running.
NoCall == [op |-> "none", pc |-> "idle", calls |-> 0]

\* The local variables of an operation when it is called.
Locals0 ==
  [backup |-> DisabledBackupStatus, loadedFromSecretStorage |-> FALSE,
   error |-> Undefined, bootstrapError |-> Undefined]

\* No operation has settled yet.
NoResult ==
  [op |-> "none", settled |-> "none", success |-> FALSE, error |-> Undefined,
   backup |-> DisabledBackupStatus]

\* No recovery key is stored.
NoRecord == [stored |-> FALSE, keyId |-> Null, privateKey |-> <<>>, createdAt |-> 0]

\* The history of an operation when it is called: how often it asked the backend to
\* load the backup key, to restore the backup and to create a backup; how often
\* getRoomKeyBackupStatus read the local and trust state, and what its first read
\* and its load attempt returned; whether a backend call or a recovery-key step
\* failed; what the last creation request found on the server; the final state
\* bootstrapOwnDeviceVerification read; whether the store rejected the recovery key
\* the caller passed and with what error, the stored record when the operation was
\* called, and how often the crypto bootstrap was invoked.
Hist0 ==
  [loadCalls |-> 0, restoreCalls |-> 0, createRequests |-> 0, reads |-> 0,
   firstRead |-> DisabledBackupStatus, loadError |-> Undefined, stepFailed |-> FALSE,
   failedFast |-> FALSE, existingAtRequest |-> 0, verified |-> FALSE, published |-> FALSE,
   keyRejected |-> FALSE, keyError |-> Undefined, recordBefore |-> NoRecord,
   bootstrapCalls |-> 0]

\* No verification or backup operation has run; the backend has every optional method.
InitApi ==
  /\ api = NoCall
  /\ locals = Locals0
  /\ result = NoResult
  /\ serverBackup = 0
  /\ caps = [canLoad |-> TRUE, canRestore |-> TRUE]
  /\ hist = Hist0

\* No device status has been read: `deviceStatus = null`.
NoDeviceStatus ==
  [present |-> FALSE, isVerified |-> FALSE, localVerified |-> FALSE,
   crossSigningVerified |-> FALSE, signedByOwner |-> FALSE]

\* Cross-signing is not set up and the server holds none of the user's keys.
NoCrossSigning ==
  [ready |-> FALSE, queryOk |-> TRUE, master |-> FALSE, selfSigning |-> FALSE,
   userSigning |-> FALSE]

\* No readiness has been evaluated.
NoReadiness == [evaluated |-> FALSE, verified |-> FALSE, published |-> FALSE, ready |-> FALSE]

\* An origin: scheme and host (the port is the scheme's default).
Origin(scheme, host) == [scheme |-> scheme, host |-> host]

\* The homeserver the client was constructed for.
Homeserver == Origin("https", "matrix.example.org")

\* No request has been made.
NoRequest ==
  [state |-> "none", absolute |-> FALSE, allowAbsoluteEndpoint |-> FALSE,
   origin |-> Homeserver, authorization |-> FALSE, redirects |-> 0,
   refused |-> Homeserver, outcome |-> "none"]

\* No request has been made on the transport.
InitTransport ==
  /\ request = NoRequest
  /\ fetches = <<>>
  /\ deadline = "unset"

\* The callback has not been called.
NoSecretStorageKey ==
  [asked |-> FALSE, keys |-> {}, record |-> NoRecord,
   returned |-> [found |-> FALSE, keyId |-> Null, privateKey |-> <<>>]]

\* Nothing has been reported or printed.
NoOutput ==
  [kind |-> "none", success |-> FALSE, error |-> Undefined, verified |-> FALSE,
   recoveryKeyStored |-> FALSE, recoveryKeyCreatedAt |-> 0, recoveryKeyId |-> Null,
   recoveryKey |-> Null]

\* No recovery key is stored and nothing has been reported.
InitStore ==
  /\ storedRecoveryKey = NoRecord
  /\ twinRecoveryKey = NoRecord
  /\ secretStorageKey = NoSecretStorageKey
  /\ exposed = NoOutput
  /\ twinExposed = NoOutput

\* The connection handlers socat forks, two at a time here.
Handlers == {"h1", "h2"}

\* A handler with no connection.
IdleHandler == [pc |-> "idle", agent |-> "", victim |-> ""]

\* state.json without agents.
NoAgents == [a \in {} |-> 0]

\* process.exitCode before anything assigned it.
UndefinedExitCode == -1

NoCommand == [pc |-> "idle", name |-> "", json |-> FALSE, outcome |-> "",
              before |-> UndefinedExitCode, printed |-> "", status |-> UndefinedExitCode]

\* No command has run and nothing assigned the exit code.
InitCommand ==
  /\ exitCode = UndefinedExitCode
  /\ command = NoCommand

\* The rooms the SDK knows, and a room id that is blank.
Rooms == {"!pending:example.org", "!joined:example.org"}
BlankRoomId == " "

\* The user ids an m.room.member event may carry as its state key.
BotUserId == "@bot:example.org"
UserIds == {BotUserId, "@alice:example.org"}

NoBridgeInput == [kind |-> "none", room |-> "", state_key |-> "", membership |-> ""]

\* No room is known and nothing was emitted; the own user id is known.
InitInvites ==
  /\ selfUserId = BotUserId
  /\ rooms = [room \in Rooms |-> "leave"]
  /\ roomEmits = [room \in Rooms |-> [invite |-> 0, join |-> 0]]
  /\ bridgeInput = NoBridgeInput

\* The pool manager listens, with no agent recorded and no connection.
InitPoolIdle ==
  /\ agents = NoAgents
  /\ clock = 0
  /\ handlers = [h \in Handlers |-> IdleHandler]
  /\ boot = [serving |-> TRUE, rest |-> <<>>, current_running |-> 0, count |-> 0]
  /\ containers = {}
  /\ activity = {}

\* Nothing has been evaluated outside the session's own operations.
InitSide ==
  /\ deviceStatus = NoDeviceStatus
  /\ crossSigning = NoCrossSigning
  /\ readiness = NoReadiness
  /\ InitTransport
  /\ InitStore
  /\ InitCommand
  /\ InitInvites
  /\ InitPoolIdle

\* No status command is running.
InitCli ==
  /\ backup = DisabledBackupStatus
  /\ issue = NoIssue

Init ==
  /\ encryptionEnabled \in BOOLEAN
  /\ password = FALSE
  /\ InitFields
  /\ InitCli
  /\ InitApi
  /\ InitSide


Set(f, k, v) == [f EXCEPT ![k] = v]

\* ---------------------------------------------------- emitter and callbacks
Emit(em, name, k) == [em EXCEPT ![name][k] = @ + 1]

\* sdk.ts:201-203
emitDecryptedEvent(em, k) == Emit(em, "room.decrypted_event", k)

\* emitMessage wired to the wrong event name.
emitMessage_asDecryptedEvent(em, k) == Emit(em, "room.decrypted_event", k)

\* sdk.ts:204-206
emitMessage(em, k) == Emit(em, "room.message", k)

\* emitFailedDecryption wired to room.message.
emitFailedDecryption_asMessage(em, k) == Emit(em, "room.message", k)

\* emitFailedDecryption wired to room.decrypted_event.
emitFailedDecryption_asDecryptedEvent(em, k) == Emit(em, "room.decrypted_event", k)

\* sdk.ts:207-209
emitFailedDecryption(em, k) == Emit(em, "room.failed_decryption", k)

\* ------------------------------------------------ decrypt bridge operations
\* De-duplication against events already delivered via decryption.
shouldEmitUnencryptedMessage(k) == k \notin decryptedMessageDedupe

\* Attaching the bridge's "decrypted" listener to an encrypted event.
attachEncryptedEvent(tracked, k) == tracked \cup {k}

\* A failure signal that starts the entry of a tracked event over.
handleDecryptionFailure_startsOver(k) ==
  /\ decryptRetries' = Set(decryptRetries, k,
       IF decryptRetries[k].inFlight THEN decryptRetries[k] ELSE NewEntry)
  /\ IF decryptRetries[k] = NoEntry
     THEN /\ emitted' = emitFailedDecryption(emitted, k)
          /\ entriesCreated' = Set(entriesCreated, k, entriesCreated[k] + 1)
          /\ terminalCalls' = Set(terminalCalls, k, 0)
     ELSE UNCHANGED <<emitted, retryHistory>>

\* A decryption result that carries an error: an event not already tracked gets a
\* pending entry with attempts = 1 and its first retry scheduled, and the failed
\* decryption is notified right away; for a tracked event nothing happens.
handleDecryptionFailure(k) ==
  IF decryptRetries[k] = NoEntry
  THEN /\ decryptRetries' = Set(decryptRetries, k, NewEntry)
       /\ emitted' = emitFailedDecryption(emitted, k)
       /\ entriesCreated' = Set(entriesCreated, k, entriesCreated[k] + 1)
       /\ terminalCalls' = Set(terminalCalls, k, 0)
  ELSE UNCHANGED <<decryptRetries, emitted, retryHistory>>

\* A decryption result without error: the entry is removed (its timer cancelled),
\* the id is remembered as delivered and the decrypted event is emitted.
handleDecryptionSuccess(k) ==
  /\ decryptRetries' = Set(decryptRetries, k, NoEntry)
  /\ decryptedMessageDedupe' = decryptedMessageDedupe \cup {k}
  /\ emitted' = emitMessage(emitDecryptedEvent(emitted, k), k)
  /\ messageRaw' = Set(messageRaw, k, "m.room.message")

\* The entries a retry may be started for: tracked and no retry in flight.
CanStartRetry(k) == decryptRetries[k] # NoEntry /\ ~decryptRetries[k].inFlight

\* One retry attempt of the entries in ks: the timer is consumed, the entry is marked
\* in flight and the backend's decryptEventIfNeeded(event, {isRetry: true}) is called.
runDecryptRetry(ks, cause) ==
  /\ decryptRetries' = [k \in Keys |->
       IF k \in ks /\ CanStartRetry(k)
       THEN [decryptRetries[k] EXCEPT !.timer = FALSE, !.inFlight = TRUE,
                                      !.calls = @ + 1, !.startedBy = cause]
       ELSE decryptRetries[k]]
  /\ inFlightCalls' = [k \in Keys |->
       IF k \in ks /\ CanStartRetry(k) THEN inFlightCalls[k] + 1 ELSE inFlightCalls[k]]

\* The trigger without the in-flight check: every entry starts a call.
retryPendingNow_ignoresInFlight ==
  /\ decryptRetries' = [k \in Keys |->
       IF decryptRetries[k] # NoEntry
       THEN [decryptRetries[k] EXCEPT !.timer = FALSE, !.inFlight = TRUE,
                                      !.calls = @ + 1, !.startedBy = "signal"]
       ELSE decryptRetries[k]]
  /\ inFlightCalls' = [k \in Keys |->
       IF decryptRetries[k] # NoEntry THEN inFlightCalls[k] + 1 ELSE inFlightCalls[k]]

\* The trigger leaving entries with an armed timer to their deadline.
retryPendingNow_keepsTimers ==
  runDecryptRetry({k \in Keys : decryptRetries[k] # NoEntry /\ ~decryptRetries[k].timer}, "signal")

\* Immediate-retry trigger: every pending entry retries now; timers of the entries
\* are cancelled, entries with a retry in flight are left alone.
retryPendingNow == runDecryptRetry({k \in Keys : decryptRetries[k] # NoEntry}, "signal")

\* A failed retry that counts the attempt and schedules no next retry.
finishDecryptRetry_noReschedule(k) ==
  LET entry == decryptRetries[k] IN
  IF entry = NoEntry \/ ~entry.inFlight
  THEN UNCHANGED <<decryptRetries, terminalCalls>>
  ELSE IF sdkEvent[k] # "undecrypted"
  THEN /\ decryptRetries' = Set(decryptRetries, k, NoEntry)
       /\ UNCHANGED terminalCalls
  ELSE IF entry.attempts + 1 > MATRIX_DECRYPT_RETRY_MAX_ATTEMPTS
  THEN /\ decryptRetries' = Set(decryptRetries, k, NoEntry)
       /\ terminalCalls' = Set(terminalCalls, k, entry.calls)
  ELSE /\ decryptRetries' = Set(decryptRetries, k,
            [entry EXCEPT !.attempts = @ + 1, !.timer = FALSE, !.inFlight = FALSE])
       /\ UNCHANGED terminalCalls

\* The retry cap compared against the attempts made, not the attempt to come.
finishDecryptRetry_capOffByOne(k) ==
  LET entry == decryptRetries[k] IN
  IF entry = NoEntry \/ ~entry.inFlight
  THEN UNCHANGED <<decryptRetries, terminalCalls>>
  ELSE IF sdkEvent[k] # "undecrypted"
  THEN /\ decryptRetries' = Set(decryptRetries, k, NoEntry)
       /\ UNCHANGED terminalCalls
  ELSE IF entry.attempts > MATRIX_DECRYPT_RETRY_MAX_ATTEMPTS
  THEN /\ decryptRetries' = Set(decryptRetries, k, NoEntry)
       /\ terminalCalls' = Set(terminalCalls, k, entry.calls)
  ELSE /\ decryptRetries' = Set(decryptRetries, k,
            [entry EXCEPT !.attempts = @ + 1, !.timer = TRUE, !.inFlight = FALSE])
       /\ UNCHANGED terminalCalls

\* The backend call of a retry returned or threw. If the entry's event still fails to
\* decrypt the attempt count goes up: past the cap the entry is removed
\* (Failed-Terminal, no notification), otherwise the next retry is scheduled.
finishDecryptRetry(k) ==
  LET entry == decryptRetries[k] IN
  IF entry = NoEntry \/ ~entry.inFlight
  THEN UNCHANGED <<decryptRetries, terminalCalls>>
  ELSE IF sdkEvent[k] # "undecrypted"
  THEN /\ decryptRetries' = Set(decryptRetries, k, NoEntry)
       /\ UNCHANGED terminalCalls
  ELSE IF entry.attempts + 1 > MATRIX_DECRYPT_RETRY_MAX_ATTEMPTS
  THEN /\ decryptRetries' = Set(decryptRetries, k, NoEntry)
       /\ terminalCalls' = Set(terminalCalls, k, entry.calls)
  ELSE /\ decryptRetries' = Set(decryptRetries, k,
            [entry EXCEPT !.attempts = @ + 1, !.timer = TRUE, !.inFlight = FALSE])
       /\ UNCHANGED terminalCalls

\* Process stop: every entry removed, every retry timer cancelled, the backend
\* signal listeners detached.
decryptBridge_stop ==
  /\ decryptRetries' = [k \in Keys |-> NoEntry]
  /\ trackedEncryptedEvents' = {}
  /\ cryptoRetrySignalsBound' = FALSE


\* --------------------------------------------------------- session facade
\* Where a caller of initializeCryptoIfNeeded continues once it has returned:
\* start() goes on to `await this.client.startClient(...)`.
AfterInit(op) == IF op = "start" THEN "startClient" ELSE "afterInit"

\* initializeCryptoIfNeeded, up to its first await.
initializeCryptoIfNeeded(op) ==
  IF ~encryptionEnabled \/ cryptoInitialized THEN AfterInit(op) ELSE "restoreIdb"

\* Moving operation op to the await `to`.
Goto(op, to) ==
  /\ pc' = Set(pc, op, to)
  /\ UNCHANGED clientRunning

\* start(), up to its first await.
start ==
  /\ pc["start"] = "idle"
  /\ ~started
  /\ bridgeRegistered' = TRUE
  /\ Goto("start", initializeCryptoIfNeeded("start"))
  /\ opBegunAfterStop' = (opBegunAfterStop \/ stopCalls > 0)
  /\ lastSignal' = FALSE
  /\ UNCHANGED <<configVars, callerVars, bootstrapHistory, stopAndPersistVars, started,
                 cryptoBootstrapped, cryptoInitialized, idbPersistTimer, leakedTimers,
                 bridgeVars, backendVars, emitVars, stopHistory, lateTick, retryHistory>>

\* prepareForOneOff(), restoreRoomKeyBackup() and bootstrapOwnDeviceVerification(), up
\* to the first await of the initializeCryptoIfNeeded they call. With encryption
\* disabled each of them returns without reaching it.
callWithCryptoInit(op) ==
  /\ pc[op] = "idle"
  /\ encryptionEnabled
  /\ Goto(op, initializeCryptoIfNeeded(op))
  /\ opBegunAfterStop' = (opBegunAfterStop \/ stopCalls > 0)
  /\ lastSignal' = FALSE
  /\ UNCHANGED <<configVars, callerVars, bootstrapHistory, stopAndPersistVars,
                 bridgeRegistered, started, cryptoBootstrapped, cryptoInitialized,
                 idbPersistTimer, leakedTimers, bridgeVars, backendVars, emitVars,
                 stopHistory, lateTick, retryHistory>>

prepareForOneOff == callWithCryptoInit("prepareForOneOff")

restoreRoomKeyBackup == callWithCryptoInit("restoreRoomKeyBackup")

bootstrapOwnDeviceVerification == callWithCryptoInit("bootstrapOwnDeviceVerification")

\* `await restoreIdbFromDisk(...)` settles. It is outside the try block: a rejection
\* leaves initializeCryptoIfNeeded, and only bootstrapOwnDeviceVerification catches it.
restoreIdbFromDisk_settles(op, ok) ==
  /\ pc[op] = "restoreIdb"
  /\ Goto(op, IF ok THEN "initRustCrypto"
              ELSE IF op = "bootstrapOwnDeviceVerification" THEN "initRejected" ELSE "idle")
  /\ lastSignal' = FALSE
  /\ UNCHANGED <<configVars, callerVars, bootstrapHistory, stopAndPersistVars,
                 bridgeRegistered, started, cryptoBootstrapped, cryptoInitialized,
                 idbPersistTimer, leakedTimers, bridgeVars, backendVars, emitVars,
                 stopHistory, tickHistory, retryHistory>>

\* `await this.client.initRustCrypto(...)` settles; a rejection is caught and logged.
initRustCrypto_settles(op, ok) ==
  /\ pc[op] = "initRustCrypto"
  /\ cryptoInitialized' = (cryptoInitialized \/ ok)
  /\ Goto(op, IF ok THEN "persistIdb" ELSE AfterInit(op))
  /\ lastSignal' = FALSE
  /\ UNCHANGED <<configVars, callerVars, bootstrapHistory, stopAndPersistVars,
                 bridgeRegistered, started, cryptoBootstrapped, idbPersistTimer,
                 leakedTimers, bridgeVars, backendVars, emitVars, stopHistory, tickHistory,
                 retryHistory>>

\* `await persistIdbToDisk(...)` after init settles; on success the periodic timer is
\* created with setInterval and stored in idbPersistTimer, whatever the field held.
persistIdbToDisk_settles(op, ok) ==
  /\ pc[op] = "persistIdb"
  /\ idbPersistTimer' = (idbPersistTimer \/ ok)
  /\ leakedTimers' = IF ok /\ idbPersistTimer THEN leakedTimers + 1 ELSE leakedTimers
  /\ Goto(op, AfterInit(op))
  /\ lastSignal' = FALSE
  /\ UNCHANGED <<configVars, callerVars, bootstrapHistory, stopAndPersistVars,
                 bridgeRegistered, started, cryptoBootstrapped, cryptoInitialized,
                 bridgeVars, backendVars, emitVars, stopHistory, tickHistory, retryHistory>>

\* The rest of start() once no await is left: started is set (the invite replay and
\* the DM cache refresh change nothing modelled here).
FinishStart ==
  /\ started' = TRUE
  /\ pc' = Set(pc, "start", "idle")

\* bootstrapCryptoIfNeeded's guard (autoBootstrapCrypto at its default).
NeedsCryptoBootstrap == encryptionEnabled /\ cryptoInitialized /\ ~cryptoBootstrapped

\* `await this.client.startClient(...)` settles. On success start() enters
\* bootstrapCryptoIfNeeded; the bootstrapper's bootstrap() binds the key-available
\* signals of the crypto backend to the decrypt bridge.
startClient_settles(ok) ==
  /\ pc["start"] = "startClient"
  /\ clientRunning' = (clientRunning \/ ok)
  /\ IF ~ok
     THEN /\ pc' = Set(pc, "start", "idle")
          /\ UNCHANGED <<started, cryptoRetrySignalsBound, bootstrapHistory>>
     ELSE IF NeedsCryptoBootstrap
     THEN /\ pc' = Set(pc, "start", "bootstrap")
          /\ cryptoRetrySignalsBound' = TRUE
          /\ bootstrapOptions' = DefaultBootstrap
          /\ autoBootstrap' = [autoBootstrap EXCEPT !.attempts = @ + 1]
          /\ UNCHANGED <<started, bootstrapReport>>
     ELSE /\ FinishStart
          /\ UNCHANGED <<cryptoRetrySignalsBound, bootstrapHistory>>
  /\ lastSignal' = FALSE
  /\ UNCHANGED <<configVars, callerVars, stopAndPersistVars, bridgeRegistered, cryptoBootstrapped,
                 cryptoInitialized, idbPersistTimer, leakedTimers, trackedEncryptedEvents,
                 decryptRetries, decryptedMessageDedupe, backendVars, emitVars,
                 stopHistory, tickHistory, retryHistory>>

\* The forced reset attempted whenever the first attempt is incomplete, password or not.
bootstrapCryptoIfNeeded_initial_ignoresPassword(crossSigningPublished, ownDeviceVerified) ==
  /\ pc["start"] = "bootstrap"
  /\ IF ~crossSigningPublished \/ ownDeviceVerified = "false"
     THEN /\ pc' = Set(pc, "start", "forcedBootstrap")
          /\ bootstrapReport' = [crossSigningPublished |-> crossSigningPublished,
                                  ownDeviceVerified |-> ownDeviceVerified]
          /\ bootstrapOptions' = [forceResetCrossSigning |-> TRUE, strict |-> TRUE]
          /\ autoBootstrap' = [autoBootstrap EXCEPT !.attempts = @ + 1]
          /\ UNCHANGED <<started, cryptoBootstrapped>>
     ELSE /\ cryptoBootstrapped' = TRUE
          /\ FinishStart
          /\ bootstrapReport' = NoReport
          /\ bootstrapOptions' = DefaultBootstrap
          /\ UNCHANGED autoBootstrap
  /\ lastSignal' = FALSE
  /\ UNCHANGED <<configVars, callerVars, stopAndPersistVars, bridgeRegistered, cryptoInitialized,
                 idbPersistTimer, leakedTimers, clientRunning, bridgeVars, backendVars,
                 emitVars, stopHistory, tickHistory, retryHistory>>

\* The initial `await this.cryptoBootstrapper.bootstrap(crypto)` resolves with the
\* given report. Incomplete (cross-signing keys not published, or the own device
\* reported unverified) with a non-blank password configured: the forced-reset
\* bootstrap is called with forceResetCrossSigning and strict set; otherwise the
\* incompleteness is logged and cryptoBootstrapped is set.
bootstrapCryptoIfNeeded_initial(crossSigningPublished, ownDeviceVerified) ==
  /\ pc["start"] = "bootstrap"
  /\ IF (~crossSigningPublished \/ ownDeviceVerified = "false") /\ password
     THEN /\ pc' = Set(pc, "start", "forcedBootstrap")
          /\ bootstrapReport' = [crossSigningPublished |-> crossSigningPublished,
                                  ownDeviceVerified |-> ownDeviceVerified]
          /\ bootstrapOptions' = [forceResetCrossSigning |-> TRUE, strict |-> TRUE]
          /\ autoBootstrap' = [autoBootstrap EXCEPT !.attempts = @ + 1]
          /\ UNCHANGED <<started, cryptoBootstrapped>>
     ELSE /\ cryptoBootstrapped' = TRUE
          /\ FinishStart
          /\ bootstrapReport' = NoReport
          /\ bootstrapOptions' = DefaultBootstrap
          /\ UNCHANGED autoBootstrap
  /\ lastSignal' = FALSE
  /\ UNCHANGED <<configVars, callerVars, stopAndPersistVars, bridgeRegistered, cryptoInitialized,
                 idbPersistTimer, leakedTimers, clientRunning, bridgeVars, backendVars,
                 emitVars, stopHistory, tickHistory, retryHistory>>

\* The forced-reset bootstrap with its rejection left uncaught: start() rejects.
bootstrapCryptoIfNeeded_forced_uncaught(ok) ==
  /\ pc["start"] = "forcedBootstrap"
  /\ IF ok
     THEN /\ cryptoBootstrapped' = TRUE
          /\ FinishStart
     ELSE /\ pc' = Set(pc, "start", "idle")
          /\ UNCHANGED <<started, cryptoBootstrapped>>
  /\ bootstrapReport' = NoReport
  /\ bootstrapOptions' = DefaultBootstrap
  /\ autoBootstrap' = [autoBootstrap EXCEPT
                         !.forcedReset = IF ok THEN "resolved" ELSE "rejected"]
  /\ lastSignal' = FALSE
  /\ UNCHANGED <<configVars, callerVars, stopAndPersistVars, bridgeRegistered, cryptoInitialized,
                 idbPersistTimer, leakedTimers, clientRunning, bridgeVars, backendVars,
                 emitVars, stopHistory, tickHistory, retryHistory>>

\* The forced-reset bootstrap settles; a rejection is caught and logged
\* (sdk.ts:319-335), and start() goes on as after a resolved call.
bootstrapCryptoIfNeeded_forced(ok) ==
  /\ pc["start"] = "forcedBootstrap"
  /\ cryptoBootstrapped' = TRUE
  /\ FinishStart
  /\ bootstrapReport' = NoReport
  /\ bootstrapOptions' = DefaultBootstrap
  /\ autoBootstrap' = [autoBootstrap EXCEPT
                         !.forcedReset = IF ok THEN "resolved" ELSE "rejected"]
  /\ lastSignal' = FALSE
  /\ UNCHANGED <<configVars, callerVars, stopAndPersistVars, bridgeRegistered, cryptoInitialized,
                 idbPersistTimer, leakedTimers, clientRunning, bridgeVars, backendVars,
                 emitVars, stopHistory, tickHistory, retryHistory>>

\* An operation other than start() runs on after initializeCryptoIfNeeded and returns.
operationReturns(op) ==
  /\ pc[op] \in {"afterInit", "initRejected"}
  /\ pc' = Set(pc, op, "idle")
  /\ lastSignal' = FALSE
  /\ UNCHANGED <<configVars, callerVars, bootstrapHistory, stopAndPersistVars,
                 bridgeRegistered, started, cryptoBootstrapped, cryptoInitialized,
                 idbPersistTimer, leakedTimers, clientRunning, bridgeVars, backendVars,
                 emitVars, stopHistory, tickHistory, retryHistory>>

\* stop() without the call of decryptBridge.stop().
stop_withoutBridgeStop ==
  /\ stopCalls < MaxStops
  /\ idbPersistTimer' = FALSE
  /\ finalPersists' = finalPersists + 1
  /\ stopPersistPromise' = stopCalls + 1
  /\ finalFlush' = Set(finalFlush, stopCalls + 1, "pending")
  /\ clientRunning' = FALSE
  /\ started' = FALSE
  /\ stopCalls' = stopCalls + 1
  /\ pendingAtStop' = pendingAtStop \cup {k \in Keys : decryptRetries[k] # NoEntry}
  /\ inFlightAtStop' = inFlightAtStop \cup {k \in Keys : decryptRetries[k].inFlight}
  /\ opBegunAfterStop' = FALSE
  /\ lastSignal' = FALSE
  /\ UNCHANGED <<configVars, callerVars, bootstrapHistory, bridgeRegistered,
                 cryptoBootstrapped, cryptoInitialized, pc, leakedTimers, bridgeVars,
                 backendVars, emitVars, lateTick, retryHistory>>

\* stop(): clear the periodic timer the field holds, stop the decrypt bridge, start
\* the final persist, stop the SDK client.
stop ==
  /\ stopCalls < MaxStops
  /\ idbPersistTimer' = FALSE
  /\ decryptBridge_stop
  /\ finalPersists' = finalPersists + 1
  /\ stopPersistPromise' = stopCalls + 1
  /\ finalFlush' = Set(finalFlush, stopCalls + 1, "pending")
  /\ clientRunning' = FALSE
  /\ started' = FALSE
  /\ stopCalls' = stopCalls + 1
  /\ pendingAtStop' = pendingAtStop \cup {k \in Keys : decryptRetries[k] # NoEntry}
  /\ inFlightAtStop' = inFlightAtStop \cup {k \in Keys : decryptRetries[k].inFlight}
  /\ opBegunAfterStop' = FALSE
  /\ lastSignal' = FALSE
  /\ UNCHANGED <<configVars, callerVars, bootstrapHistory, bridgeRegistered,
                 cryptoBootstrapped, cryptoInitialized, pc, leakedTimers,
                 decryptedMessageDedupe, backendVars, emitVars, lateTick, retryHistory>>

\* The application calls stop().
stop_called == stop /\ UNCHANGED stopAndPersistVars

\* The promise stop() stores without `.catch(noop)`: a failed flush rejects it.
stopPersistPromise_uncaught(flush) == IF flush = "failed" THEN "rejected" ELSE "resolved"

\* How `persistIdbToDisk(...).catch(noop)` settles once the flush has: fulfilled,
\* whether the flush succeeded or failed.
stopPersistPromise_settled(flush) == "resolved"

\* stopAndPersist(), up to its await: stop() runs and the promise it has just stored
\* is the one awaited.
stopAndPersist ==
  /\ stopAndPersistAwaits = 0
  /\ stop
  /\ stopAndPersistAwaits' = stopPersistPromise'
  /\ stopAndPersistResult' = "none"

\* The final flush started by the i-th stop() settles.
finalPersist_settles(i, ok) ==
  /\ finalFlush[i] = "pending"
  /\ finalFlush' = Set(finalFlush, i, IF ok THEN "ok" ELSE "failed")
  /\ lastSignal' = FALSE
  /\ UNCHANGED <<configVars, callerVars, bootstrapHistory, stopAndPersistVars, sessionVars,
                 bridgeVars, backendVars, emitVars, stopCalls, finalPersists,
                 stopPersistPromise, pendingAtStop, inFlightAtStop, tickHistory,
                 retryHistory>>

\* `await this.stopPersistPromise` resumes: stopAndPersist() settles.
stopAndPersist_settles ==
  /\ stopAndPersistAwaits # 0
  /\ finalFlush[stopAndPersistAwaits] \in {"ok", "failed"}
  /\ stopAndPersistResult' = stopPersistPromise_settled(finalFlush[stopAndPersistAwaits])
  /\ stopAndPersistAwaits' = 0
  /\ lastSignal' = FALSE
  /\ UNCHANGED <<configVars, callerVars, bootstrapHistory, sessionVars, bridgeVars, backendVars,
                 emitVars, stopHistory, tickHistory, retryHistory>>

\* The setInterval callback of a live periodic timer runs persistIdbToDisk.
periodicPersist ==
  /\ idbPersistTimer \/ leakedTimers > 0
  /\ lateTick' = (lateTick \/ (stopCalls > 0 /\ ~opBegunAfterStop))
  /\ lastSignal' = FALSE
  /\ UNCHANGED <<configVars, callerVars, bootstrapHistory, stopAndPersistVars, sessionVars,
                 bridgeVars, backendVars, emitVars, stopHistory, opBegunAfterStop,
                 retryHistory>>


\* ------------------------------------------------------------ event bridge
\* The listener without the isEncryptedEvent branch: every event is offered as
\* room.message.
registerBridge_onEvent_deliversEncrypted(k, type) ==
  LET isEncryptedEvent == type = "m.room.encrypted"
      deliver == shouldEmitUnencryptedMessage(k)
      announced == Emit(emitted, "room.event", k)
      shown == IF isEncryptedEvent THEN Emit(announced, "room.encrypted_event", k) ELSE announced
  IN /\ emitted' = IF deliver THEN emitMessage(shown, k) ELSE shown
     /\ messageRaw' = IF deliver THEN Set(messageRaw, k, type) ELSE messageRaw
     /\ trackedEncryptedEvents' = IF isEncryptedEvent
                                  THEN attachEncryptedEvent(trackedEncryptedEvents, k)
                                  ELSE trackedEncryptedEvents

\* The listener without the shouldEmitUnencryptedMessage check.
registerBridge_onEvent_noDedupe(k, type) ==
  LET isEncryptedEvent == type = "m.room.encrypted"
      announced == Emit(emitted, "room.event", k)
  IN /\ emitted' = IF isEncryptedEvent THEN Emit(announced, "room.encrypted_event", k)
                   ELSE emitMessage(announced, k)
     /\ messageRaw' = IF ~isEncryptedEvent THEN Set(messageRaw, k, type) ELSE messageRaw
     /\ trackedEncryptedEvents' = IF isEncryptedEvent
                                  THEN attachEncryptedEvent(trackedEncryptedEvents, k)
                                  ELSE trackedEncryptedEvents

\* The ClientEvent.Event listener installed by registerBridge, for an event of the
\* given raw type: room.event always; an encrypted event is announced as
\* room.encrypted_event and handed to the decrypt bridge, any other event is
\* delivered as room.message unless the bridge vetoes it.
registerBridge_onEvent(k, type) ==
  LET isEncryptedEvent == type = "m.room.encrypted"
      deliver == ~isEncryptedEvent /\ shouldEmitUnencryptedMessage(k)
      announced == Emit(emitted, "room.event", k)
  IN /\ emitted' = IF isEncryptedEvent THEN Emit(announced, "room.encrypted_event", k)
                   ELSE IF deliver THEN emitMessage(announced, k)
                   ELSE announced
     /\ messageRaw' = IF deliver THEN Set(messageRaw, k, type) ELSE messageRaw
     /\ trackedEncryptedEvents' = IF isEncryptedEvent
                                  THEN attachEncryptedEvent(trackedEncryptedEvents, k)
                                  ELSE trackedEncryptedEvents

\* The running SDK client emits event k, still undecrypted, as m.room.encrypted.
clientEmitsEncrypted(k) ==
  /\ clientRunning
  /\ bridgeRegistered
  /\ emitted["room.event"][k] < MaxEmits
  /\ sdkEvent[k] \in {"unseen", "undecrypted"}
  /\ sdkEvent' = Set(sdkEvent, k, "undecrypted")
  /\ registerBridge_onEvent(k, "m.room.encrypted")
  /\ lastSignal' = FALSE
  /\ UNCHANGED <<configVars, callerVars, bootstrapHistory, stopAndPersistVars, sessionVars,
                 cryptoRetrySignalsBound, decryptRetries, decryptedMessageDedupe,
                 inFlightCalls, stopHistory, tickHistory, retryHistory>>

\* The running SDK client emits event k as a normal event: one that was never
\* encrypted, or the clear form of an event it has decrypted.
clientEmitsNormal(k) ==
  /\ clientRunning
  /\ bridgeRegistered
  /\ emitted["room.event"][k] < MaxEmits
  /\ sdkEvent[k] \in {"unseen", "plain", "decrypted"}
  /\ sdkEvent' = Set(sdkEvent, k, IF sdkEvent[k] = "unseen" THEN "plain" ELSE sdkEvent[k])
  /\ registerBridge_onEvent(k, "m.room.message")
  /\ lastSignal' = FALSE
  /\ UNCHANGED <<configVars, callerVars, bootstrapHistory, stopAndPersistVars, sessionVars,
                 cryptoRetrySignalsBound, decryptRetries, decryptedMessageDedupe,
                 inFlightCalls, stopHistory, tickHistory, retryHistory>>

\* The backend reports a failed decryption of event k: "decrypted" with an error.
backendDecryptionFails(k) ==
  /\ sdkEvent[k] = "undecrypted"
  /\ k \in trackedEncryptedEvents
  /\ decryptRetries[k] # NoEntry \/ entriesCreated[k] < MaxTrackings
  /\ handleDecryptionFailure(k)
  /\ lastSignal' = FALSE
  /\ UNCHANGED <<configVars, callerVars, bootstrapHistory, stopAndPersistVars, sessionVars,
                 cryptoRetrySignalsBound, trackedEncryptedEvents, decryptedMessageDedupe,
                 backendVars, messageRaw, stopHistory, tickHistory>>

\* The backend decrypts event k: "decrypted" without error, heard by the bridge when
\* its listener is attached to the event.
backendDecrypts(k) ==
  /\ sdkEvent[k] = "undecrypted"
  /\ sdkEvent' = Set(sdkEvent, k, "decrypted")
  /\ IF k \in trackedEncryptedEvents
     THEN handleDecryptionSuccess(k)
     ELSE UNCHANGED <<decryptRetries, decryptedMessageDedupe, emitVars>>
  /\ lastSignal' = FALSE
  /\ UNCHANGED <<configVars, callerVars, bootstrapHistory, stopAndPersistVars, sessionVars,
                 cryptoRetrySignalsBound, trackedEncryptedEvents, inFlightCalls,
                 stopHistory, tickHistory, retryHistory>>

\* The retry timer of entry k expires.
timerFires(k) ==
  /\ decryptRetries[k].timer
  /\ runDecryptRetry({k}, "timer")
  /\ lastSignal' = FALSE
  /\ UNCHANGED <<configVars, callerVars, bootstrapHistory, stopAndPersistVars, sessionVars,
                 cryptoRetrySignalsBound, trackedEncryptedEvents, decryptedMessageDedupe,
                 sdkEvent, emitVars, stopHistory, tickHistory, retryHistory>>

\* The crypto backend signals that the backup decryption key became available.
keyAvailable ==
  /\ cryptoRetrySignalsBound
  /\ retryPendingNow
  /\ lastSignal' = TRUE
  /\ UNCHANGED <<configVars, callerVars, bootstrapHistory, stopAndPersistVars, sessionVars,
                 cryptoRetrySignalsBound, trackedEncryptedEvents, decryptedMessageDedupe,
                 sdkEvent, emitVars, stopHistory, tickHistory, retryHistory>>

\* A decryptEventIfNeeded call for event k returns or throws.
retryCallReturns(k) ==
  /\ inFlightCalls[k] > 0
  /\ inFlightCalls' = Set(inFlightCalls, k, inFlightCalls[k] - 1)
  /\ finishDecryptRetry(k)
  /\ lastSignal' = FALSE
  /\ UNCHANGED <<configVars, callerVars, bootstrapHistory, stopAndPersistVars, sessionVars,
                 cryptoRetrySignalsBound, trackedEncryptedEvents, decryptedMessageDedupe,
                 sdkEvent, emitVars, stopHistory, tickHistory, entriesCreated>>

\* ---------------------------------------------------------- specifications
\* The event bridge. The application calls start() once; the crypto
\* initialization of that start succeeds.
Next ==
  \/ stopCalls = 0 /\ start
  \/ restoreIdbFromDisk_settles("start", TRUE)
  \/ initRustCrypto_settles("start", TRUE)
  \/ persistIdbToDisk_settles("start", TRUE)
  \/ startClient_settles(TRUE)
  \/ bootstrapCryptoIfNeeded_initial(TRUE, "true")
  \/ \E k \in Keys : clientEmitsEncrypted(k)
  \/ \E k \in Keys : clientEmitsNormal(k)
  \/ \E k \in Keys : backendDecryptionFails(k)
  \/ \E k \in Keys : backendDecrypts(k)
  \/ \E k \in Keys : timerFires(k)
  \/ keyAvailable
  \/ \E k \in Keys : retryCallReturns(k)
  \/ stop_called

Spec == Init /\ [][Next]_vars

\* The event whose retries are followed to their end.
RetryKeys == {"$event1"}

\* The retries of one event: start() as in Spec, the event arriving encrypted, the
\* backend's decryption results, the timer, key-available signals, returning retry
\* calls and stop(); the timer fires and the retry calls return.
NextRetry ==
  \/ stopCalls = 0 /\ start
  \/ restoreIdbFromDisk_settles("start", TRUE)
  \/ initRustCrypto_settles("start", TRUE)
  \/ persistIdbToDisk_settles("start", TRUE)
  \/ startClient_settles(TRUE)
  \/ bootstrapCryptoIfNeeded_initial(TRUE, "true")
  \/ \E k \in RetryKeys : clientEmitsEncrypted(k)
  \/ \E k \in RetryKeys : backendDecryptionFails(k)
  \/ \E k \in RetryKeys : backendDecrypts(k)
  \/ \E k \in RetryKeys : timerFires(k)
  \/ keyAvailable
  \/ \E k \in RetryKeys : retryCallReturns(k)
  \/ stop_called

SpecRetry ==
  /\ Init
  /\ [][NextRetry]_vars
  /\ \A k \in RetryKeys : WF_vars(timerFires(k)) /\ WF_vars(retryCallReturns(k))

\* The crypto lifecycle: every operation that may initialize crypto, every outcome
\* of the awaited calls, stop() and the periodic timer; no event traffic.
InitSession ==
  /\ encryptionEnabled \in BOOLEAN
  /\ password \in BOOLEAN
  /\ InitFields
  /\ InitCli
  /\ InitApi
  /\ InitSide

NextSession ==
  \/ start
  \/ prepareForOneOff
  \/ restoreRoomKeyBackup
  \/ bootstrapOwnDeviceVerification
  \/ \E op \in Ops, ok \in BOOLEAN : restoreIdbFromDisk_settles(op, ok)
  \/ \E op \in Ops, ok \in BOOLEAN : initRustCrypto_settles(op, ok)
  \/ \E op \in Ops, ok \in BOOLEAN : persistIdbToDisk_settles(op, ok)
  \/ \E ok \in BOOLEAN : startClient_settles(ok)
  \/ \E crossSigningPublished \in BOOLEAN, ownDeviceVerified \in Tri :
       bootstrapCryptoIfNeeded_initial(crossSigningPublished, ownDeviceVerified)
  \/ \E ok \in BOOLEAN : bootstrapCryptoIfNeeded_forced(ok)
  \/ \E op \in Ops : operationReturns(op)
  \/ stop_called
  \/ periodicPersist

SpecSession == InitSession /\ [][NextSession]_vars

\* Shutdown: start() with every outcome of its awaited calls, stop() and
\* stopAndPersist() at any point, the final flushes and the periodic timer.
NextStop ==
  \/ start
  \/ \E ok \in BOOLEAN : restoreIdbFromDisk_settles("start", ok)
  \/ \E ok \in BOOLEAN : initRustCrypto_settles("start", ok)
  \/ \E ok \in BOOLEAN : persistIdbToDisk_settles("start", ok)
  \/ \E ok \in BOOLEAN : startClient_settles(ok)
  \/ bootstrapCryptoIfNeeded_initial(TRUE, "true")
  \/ stop_called
  \/ stopAndPersist
  \/ \E i \in 1..MaxStops, ok \in BOOLEAN : finalPersist_settles(i, ok)
  \/ stopAndPersist_settles
  \/ periodicPersist

SpecStop == InitSession /\ [][NextStop]_vars

\* ------------------------------------------------------ CLI backup diagnosis
Issue(code, summary, message) == [code |-> code, summary |-> summary, message |-> message]

MissingServerBackup ==
  Issue("missing-server-backup", "missing on server",
        <<"no room-key backup exists on the homeserver">>)

KeyLoadFailed(keyLoadError) ==
  Issue("key-load-failed", "present but backup key unavailable on this device",
        <<"backup decryption key could not be loaded from secret storage (", keyLoadError, ")">>)

KeyNotLoadedAfterAttempt ==
  Issue("key-not-loaded", "present but backup key unavailable on this device",
        <<"backup decryption key is not loaded on this device (secret storage did not return a key)">>)

KeyNotLoaded ==
  Issue("key-not-loaded", "present but backup key unavailable on this device",
        <<"backup decryption key is not loaded on this device">>)

KeyMismatch ==
  Issue("key-mismatch", "present but backup key mismatch on this device",
        <<"backup key mismatch (this device does not have the matching backup decryption key)">>)

UntrustedSignature ==
  Issue("untrusted-signature", "present but not trusted on this device",
        <<"backup signature chain is not trusted by this device">>)

Inactive ==
  Issue("inactive", "present on server but inactive on this device",
        <<"backup exists but is not active on this device">>)

Indeterminate ==
  Issue("indeterminate", "present but trust state unknown",
        <<"backup trust state could not be fully determined">>)

\* message: null
Ok == Issue("ok", "active and trusted on this device", <<>>)

\* The key checks made before the server-version check.
resolveBackupIssue_keyChecksFirst(b) ==
  IF b.decryptionKeyCached = "false"
  THEN IF Truthy(b.keyLoadError) THEN KeyLoadFailed(b.keyLoadError)
       ELSE IF b.keyLoadAttempted THEN KeyNotLoadedAfterAttempt
       ELSE KeyNotLoaded
  ELSE IF b.matchesDecryptionKey = "false" THEN KeyMismatch
  ELSE IF b.trusted = "false" THEN UntrustedSignature
  ELSE IF ~Truthy(b.serverVersion) THEN MissingServerBackup
  ELSE IF ~Truthy(b.activeVersion) THEN Inactive
  ELSE IF "null" \in {b.trusted, b.matchesDecryptionKey, b.decryptionKeyCached}
  THEN Indeterminate
  ELSE Ok

\* The unknown-state check made before the active-version check.
resolveBackupIssue_indeterminateFirst(b) ==
  IF ~Truthy(b.serverVersion) THEN MissingServerBackup
  ELSE IF b.decryptionKeyCached = "false"
  THEN IF Truthy(b.keyLoadError) THEN KeyLoadFailed(b.keyLoadError)
       ELSE IF b.keyLoadAttempted THEN KeyNotLoadedAfterAttempt
       ELSE KeyNotLoaded
  ELSE IF b.matchesDecryptionKey = "false" THEN KeyMismatch
  ELSE IF b.trusted = "false" THEN UntrustedSignature
  ELSE IF "null" \in {b.trusted, b.matchesDecryptionKey, b.decryptionKeyCached}
  THEN Indeterminate
  ELSE IF ~Truthy(b.activeVersion) THEN Inactive
  ELSE Ok

\* keyLoadAttempted looked at before keyLoadError.
resolveBackupIssue_attemptFirst(b) ==
  IF ~Truthy(b.serverVersion) THEN MissingServerBackup
  ELSE IF b.decryptionKeyCached = "false"
  THEN IF b.keyLoadAttempted THEN KeyNotLoadedAfterAttempt
       ELSE IF Truthy(b.keyLoadError) THEN KeyLoadFailed(b.keyLoadError)
       ELSE KeyNotLoaded
  ELSE IF b.matchesDecryptionKey = "false" THEN KeyMismatch
  ELSE IF b.trusted = "false" THEN UntrustedSignature
  ELSE IF ~Truthy(b.activeVersion) THEN Inactive
  ELSE IF "null" \in {b.trusted, b.matchesDecryptionKey, b.decryptionKeyCached}
  THEN Indeterminate
  ELSE Ok

\* resolveBackupIssue (cli.ts:339-406): the first test that applies decides.
resolveBackupIssue(b) ==
  IF ~Truthy(b.serverVersion) THEN MissingServerBackup
  ELSE IF b.decryptionKeyCached = "false"
  THEN IF Truthy(b.keyLoadError) THEN KeyLoadFailed(b.keyLoadError)
       ELSE IF b.keyLoadAttempted THEN KeyNotLoadedAfterAttempt
       ELSE KeyNotLoaded
  ELSE IF b.matchesDecryptionKey = "false" THEN KeyMismatch
  ELSE IF b.trusted = "false" THEN UntrustedSignature
  ELSE IF ~Truthy(b.activeVersion) THEN Inactive
  ELSE IF "null" \in {b.trusted, b.matchesDecryptionKey, b.decryptionKeyCached}
  THEN Indeterminate
  ELSE Ok

\* Every value of a MatrixCliBackupStatus.
BackupStatuses ==
  [serverVersion : Texts, activeVersion : Texts, trusted : Tri,
   matchesDecryptionKey : Tri, decryptionKeyCached : Tri,
   keyLoadAttempted : BOOLEAN, keyLoadError : Texts]

\* A status command is about to diagnose some snapshot.
InitIssue ==
  /\ encryptionEnabled = TRUE
  /\ password = FALSE
  /\ InitFields
  /\ backup \in BackupStatuses
  /\ issue = NoIssue
  /\ InitApi
  /\ InitSide

\* printBackupSummary / buildVerificationGuidance call resolveBackupIssue(backup).
diagnoseBackup ==
  /\ issue = NoIssue
  /\ issue' = resolveBackupIssue(backup)
  /\ lastSignal' = FALSE
  /\ UNCHANGED <<configVars, backup, apiVars, sideVars, storeVars, stopAndPersistVars,
                 bootstrapHistory, sessionVars, bridgeVars, backendVars, emitVars,
                 stopHistory, tickHistory, retryHistory>>

NextIssue == diagnoseBackup

SpecIssue == InitIssue /\ [][NextIssue]_vars


\* -------------------------------------- verification and backup operations
\* In this part the operations run one at a time, each to its end, and the backend
\* answers every read and call with any outcome it can give.

ErrDisabled == "Matrix encryption is disabled for this client"
ErrNoCrypto == "Matrix crypto is not available (start client with encryption enabled)"
ErrLoadUnsupported ==
  "Matrix crypto backend does not support loading backup keys from secret storage"
ErrCannotLoad ==
  "Matrix crypto backend cannot load backup keys from secret storage. Verify this device with 'openclaw matrix-js verify device <key>' first."
ErrNotActive ==
  "Matrix key backup is not active on this device after loading from secret storage."
ErrNoRestore == "Matrix crypto backend does not support full key backup restore"
ErrStillMissing == "Matrix room key backup is still missing after bootstrap"
ErrBootstrapIncomplete ==
  "Matrix verification bootstrap did not produce a verified device with published cross-signing keys"
ErrKeyRequired == "Matrix recovery key is required"
ErrStillUnverified ==
  "Matrix device is still unverified after applying recovery key. Verify your recovery key and ensure cross-signing is available."

\* The version string of the n-th backup created on the server; null when there is none.
VersionText(n) == IF n = 0 THEN Null ELSE ToString(n)

\* The versions the device can report as its active backup.
ActiveVersions == {Null, "1"}

\* resolveRoomKeyBackupVersion: the current version when the request succeeds, null
\* when the server has no backup and null as well when the request fails.
resolveRoomKeyBackupVersion(requestOk) ==
  IF requestOk THEN VersionText(serverBackup) ELSE Null

\* `err instanceof Error ? err.message : String(err)`; err is Undefined when the
\* awaited call resolved.
Failed(err) == err # Undefined

\* No operation is running or initializing crypto.
ApiIdle == api.op = "none" /\ \A op \in Ops : pc[op] = "idle"

\* The encoded recovery keys a caller passes.
EncodedKeys == {"valid", "other", "malformed"}

\* The secret-storage key ids of the account; a store call may give none.
KeyIds == {"SSSSKEY", "OLDKEY"}

\* Creation times of a record.
Timestamps == {1, 2}

\* The error of a recovery key that does not decode.
InvalidRecoveryKey == "InvalidRecoveryKey"

\* Decoding of an encoded recovery key: its private key bytes, or none.
decodeRecoveryKey(encoded) ==
  CASE encoded = "valid" -> <<1, 2, 3, 4>>
    [] encoded = "other" -> <<9, 8, 7, 6>>
    [] OTHER -> <<>>

\* Encoding of private key bytes.
encodeRecoveryKey(privateKey) ==
  CASE privateKey = <<1, 2, 3, 4>> -> "valid"
    [] privateKey = <<9, 8, 7, 6>> -> "other"
    [] OTHER -> Null

\* The same call made with other key material.
Twin(encoded) ==
  CASE encoded = "valid" -> "other"
    [] encoded = "other" -> "valid"
    [] OTHER -> encoded

\* A malformed key replaces the stored record by one without key bytes.
storeEncodedRecoveryKey_partial(record, encodedPrivateKey, keyId, now) ==
  [stored |-> TRUE, keyId |-> keyId, privateKey |-> decodeRecoveryKey(encodedPrivateKey),
   createdAt |-> now]

\* storeEncodedRecoveryKey({encodedPrivateKey, keyId}): the record afterwards. The
\* key is decoded first; a malformed one throws and nothing is written.
storeEncodedRecoveryKey(record, encodedPrivateKey, keyId, now) ==
  IF decodeRecoveryKey(encodedPrivateKey) = <<>>
    THEN record
    ELSE [stored |-> TRUE, keyId |-> keyId,
          privateKey |-> decodeRecoveryKey(encodedPrivateKey), createdAt |-> now]

\* The record after an operation reached its storeEncodedRecoveryKey call with the
\* recovery key the caller passed, if it reached it (`reached`) and the key is not
\* blank; the creation time is the time of the call.
StoredBy(reached, recoveryKey) ==
  IF reached /\ recoveryKey # "blank"
    THEN storeEncodedRecoveryKey(storedRecoveryKey, recoveryKey, "SSSSKEY", api.calls + 1)
    ELSE storedRecoveryKey

\* What a step of an operation leaves alone besides the operation's own state and
\* the stored recovery key.
StoringFrame ==
  /\ lastSignal' = FALSE
  /\ UNCHANGED <<configVars, cliVars, sideVars, caps, stopAndPersistVars, bootstrapHistory,
                 bridgeRegistered, started, cryptoBootstrapped, cryptoInitialized,
                 idbPersistTimer, leakedTimers, clientRunning, bridgeVars, backendVars,
                 emitVars, stopHistory, tickHistory, retryHistory>>

\* What a step that stores no recovery key leaves alone.
ApiFrame ==
  /\ StoringFrame
  /\ UNCHANGED storeVars

\* The operation begins: it is counted, and its state is that of a fresh call.
Enter(op, to) ==
  /\ api' = [op |-> op, pc |-> to, calls |-> api.calls + 1]
  /\ result' = NoResult

\* The operation moves to its next await.
Step(to) ==
  /\ api' = [api EXCEPT !.pc = to]
  /\ UNCHANGED <<result, pc>>

\* The operation returns a value to its caller.
Return(op, success, error, status) ==
  /\ api' = [api EXCEPT !.op = "none", !.pc = "idle"]
  /\ result' = [op |-> op, settled |-> "returned", success |-> success,
                error |-> error, backup |-> status]
  /\ pc' = IF op \in Ops THEN Set(pc, op, "idle") ELSE pc

\* The operation's promise rejects. No await of the operations is left uncaught in
\* a way that leads here; the definition says what an uncaught rejection would do.
Reject(op) ==
  /\ api' = [api EXCEPT !.op = "none", !.pc = "idle"]
  /\ result' = [NoResult EXCEPT !.op = op, !.settled = "rejected"]
  /\ pc' = IF op \in Ops THEN Set(pc, op, "idle") ELSE pc

\* ---- getRoomKeyBackupStatus (sdk.ts:559-618)

\* getRoomKeyBackupStatus(), up to its first await.
getRoomKeyBackupStatus ==
  /\ ApiIdle
  /\ api.calls < MaxCalls
  /\ locals' = Locals0
  /\ hist' = Hist0
  /\ IF encryptionEnabled
       THEN /\ Enter("getRoomKeyBackupStatus", "version")
            /\ UNCHANGED pc
       ELSE /\ api' = [NoCall EXCEPT !.calls = api.calls + 1]
            /\ result' = [NoResult EXCEPT !.op = "getRoomKeyBackupStatus",
                                          !.settled = "returned", !.success = TRUE]
            /\ UNCHANGED pc
  /\ UNCHANGED serverBackup
  /\ ApiFrame

\* `await this.resolveRoomKeyBackupVersion()` settles; without a crypto backend the
\* snapshot holds the server version only.
getRoomKeyBackupStatus_version(requestOk) ==
  /\ api.op = "getRoomKeyBackupStatus"
  /\ api.pc = "version"
  /\ LET snapshot == [DisabledBackupStatus EXCEPT
                        !.serverVersion = resolveRoomKeyBackupVersion(requestOk)] IN
       /\ locals' = [locals EXCEPT !.backup = snapshot]
       /\ IF cryptoInitialized
            THEN Step("readLocal")
            ELSE Return("getRoomKeyBackupStatus", TRUE, Undefined, snapshot)
  /\ UNCHANGED <<serverBackup, hist>>
  /\ ApiFrame

\* resolveRoomKeyBackupLocalState settles, before or after the load attempt.
getRoomKeyBackupStatus_localState(activeVersion, decryptionKeyCached) ==
  /\ api.op = "getRoomKeyBackupStatus"
  /\ api.pc \in {"readLocal", "rereadLocal"}
  /\ locals' = [locals EXCEPT !.backup.activeVersion = activeVersion,
                              !.backup.decryptionKeyCached = decryptionKeyCached]
  /\ Step(IF api.pc = "readLocal" THEN "readTrust" ELSE "rereadTrust")
  /\ UNCHANGED <<serverBackup, hist>>
  /\ ApiFrame

\* resolveRoomKeyBackupTrustState: getKeyBackupInfo gives the server's backup unless
\* it fails or there is none, and isKeyBackupTrusted judges it.
TrustState(status, infoOk, trusted, matchesDecryptionKey) ==
  IF infoOk /\ serverBackup > 0
    THEN [status EXCEPT !.serverVersion = VersionText(serverBackup),
                        !.trusted = trusted,
                        !.matchesDecryptionKey = matchesDecryptionKey]
    ELSE [status EXCEPT !.trusted = "null", !.matchesDecryptionKey = "null"]

\* The load attempt is made without looking at the server version.
NeedsKeyLoad_ignoresServerVersion(status) == status.decryptionKeyCached = "false"

\* `if (serverVersion && decryptionKeyCached === false)`
NeedsKeyLoad(status) ==
  Truthy(status.serverVersion) /\ status.decryptionKeyCached = "false"

\* The first resolveRoomKeyBackupTrustState settles; the key is loaded from secret
\* storage if it is needed and the backend can, and the snapshot is returned if not.
getRoomKeyBackupStatus_trustState(infoOk, trusted, matchesDecryptionKey) ==
  /\ api.op = "getRoomKeyBackupStatus"
  /\ api.pc = "readTrust"
  /\ LET status == TrustState(locals.backup, infoOk, trusted, matchesDecryptionKey)
         read == [hist EXCEPT !.reads = 1, !.firstRead = status] IN
       IF NeedsKeyLoad(status) /\ caps.canLoad
         THEN /\ locals' = [locals EXCEPT !.backup = [status EXCEPT !.keyLoadAttempted = TRUE]]
              /\ hist' = [read EXCEPT !.loadCalls = @ + 1]
              /\ Step("load")
         ELSE LET snapshot == IF NeedsKeyLoad(status)
                                THEN [status EXCEPT !.keyLoadError = ErrLoadUnsupported]
                                ELSE status IN
              /\ locals' = [locals EXCEPT !.backup = snapshot]
              /\ hist' = read
              /\ Return("getRoomKeyBackupStatus", TRUE, Undefined, snapshot)
  /\ UNCHANGED serverBackup
  /\ ApiFrame

\* `await crypto.loadSessionBackupPrivateKeyFromSecretStorage()` settles; its error
\* is kept and both states are read again.
getRoomKeyBackupStatus_load(err) ==
  /\ api.op = "getRoomKeyBackupStatus"
  /\ api.pc = "load"
  /\ locals' = [locals EXCEPT !.backup.keyLoadError = IF Failed(err) THEN err ELSE Null]
  /\ hist' = [hist EXCEPT !.loadError = err]
  /\ Step("rereadLocal")
  /\ UNCHANGED serverBackup
  /\ ApiFrame

\* The second resolveRoomKeyBackupTrustState settles and the snapshot is returned.
getRoomKeyBackupStatus_returns(infoOk, trusted, matchesDecryptionKey) ==
  /\ api.op = "getRoomKeyBackupStatus"
  /\ api.pc = "rereadTrust"
  /\ LET snapshot == TrustState(locals.backup, infoOk, trusted, matchesDecryptionKey) IN
       /\ locals' = [locals EXCEPT !.backup = snapshot]
       /\ Return("getRoomKeyBackupStatus", TRUE, Undefined, snapshot)
  /\ hist' = [hist EXCEPT !.reads = 2]
  /\ UNCHANGED serverBackup
  /\ ApiFrame

\* ---- status queries made inside the other operations

\* A getRoomKeyBackupStatus() call made by another operation loads the backup key
\* only under the conditions of getRoomKeyBackupStatus_trustState.
NestedKeyLoad(attempted) ==
  attempted => encryptionEnabled /\ cryptoInitialized /\ caps.canLoad /\ serverBackup > 0

\* ---- restoreRoomKeyBackup (sdk.ts:721-798)

\* `return await fail(error)`, up to the status query inside fail().
Fail(error) ==
  /\ locals' = [locals EXCEPT !.error = error]
  /\ Step("fail")

\* restoreRoomKeyBackup() with encryption disabled.
restoreRoomKeyBackup_disabled ==
  /\ ApiIdle
  /\ api.calls < MaxCalls
  /\ ~encryptionEnabled
  /\ Enter("restoreRoomKeyBackup", "fail")
  /\ locals' = [Locals0 EXCEPT !.error = ErrDisabled]
  /\ hist' = Hist0
  /\ UNCHANGED <<pc, serverBackup>>
  /\ ApiFrame

\* restoreRoomKeyBackup() from the return of initializeCryptoIfNeeded to its next
\* await: the crypto check and, inside the try block, the recovery key the caller
\* passed; storeEncodedRecoveryKey throws on a malformed key.
restoreRoomKeyBackup_afterInit(recoveryKey, err) ==
  /\ api.op = "none"
  /\ pc["restoreRoomKeyBackup"] = "afterInit"
  /\ api' = [op |-> "restoreRoomKeyBackup",
             pc |-> IF ~cryptoInitialized \/ recoveryKey = "malformed"
                      THEN "fail" ELSE "readActive",
             calls |-> api.calls + 1]
  /\ result' = NoResult
  /\ locals' = [Locals0 EXCEPT !.error = IF ~cryptoInitialized THEN ErrNoCrypto
                                         ELSE IF recoveryKey = "malformed" THEN err
                                         ELSE Undefined]
  /\ hist' = [Hist0 EXCEPT !.stepFailed = cryptoInitialized /\ recoveryKey = "malformed",
                            !.keyRejected = cryptoInitialized /\ recoveryKey = "malformed",
                            !.keyError = IF cryptoInitialized /\ recoveryKey = "malformed"
                                           THEN err ELSE Undefined,
                            !.recordBefore = storedRecoveryKey]
  /\ storedRecoveryKey' = StoredBy(cryptoInitialized, recoveryKey)
  /\ UNCHANGED <<pc, serverBackup>>
  /\ StoringFrame

\* `await this.resolveActiveRoomKeyBackupVersion(crypto)` settles, before or after
\* the load from secret storage; a failing read gives null.
restoreRoomKeyBackup_activeVersion(activeVersion) ==
  /\ api.op = "restoreRoomKeyBackup"
  /\ api.pc = "readActive"
  /\ IF Truthy(activeVersion)
       THEN IF caps.canRestore
              THEN /\ locals' = [locals EXCEPT !.backup.activeVersion = activeVersion]
                   /\ hist' = [hist EXCEPT !.restoreCalls = @ + 1]
                   /\ Step("restore")
              ELSE /\ Fail(ErrNoRestore)
                   /\ UNCHANGED hist
       ELSE IF locals.loadedFromSecretStorage
              THEN /\ Fail(ErrNotActive)
                   /\ UNCHANGED hist
              ELSE IF ~caps.canLoad
                     THEN /\ Fail(ErrCannotLoad)
                          /\ hist' = [hist EXCEPT !.failedFast = TRUE]
                     ELSE /\ hist' = [hist EXCEPT !.loadCalls = @ + 1]
                          /\ Step("load")
                          /\ UNCHANGED locals
  /\ UNCHANGED serverBackup
  /\ ApiFrame

\* A rejection of the load from secret storage leaves restoreRoomKeyBackup.
restoreRoomKeyBackup_load_uncaught(err) ==
  /\ api.op = "restoreRoomKeyBackup"
  /\ api.pc = "load"
  /\ IF Failed(err)
       THEN /\ Reject("restoreRoomKeyBackup")
            /\ hist' = [hist EXCEPT !.stepFailed = TRUE]
            /\ UNCHANGED locals
       ELSE /\ locals' = [locals EXCEPT !.loadedFromSecretStorage = TRUE]
            /\ Step("readActive")
            /\ UNCHANGED hist
  /\ UNCHANGED serverBackup
  /\ ApiFrame

\* `await crypto.loadSessionBackupPrivateKeyFromSecretStorage()` settles; the catch
\* block turns a rejection into fail(message).
restoreRoomKeyBackup_load(err) ==
  /\ api.op = "restoreRoomKeyBackup"
  /\ api.pc = "load"
  /\ IF Failed(err)
       THEN /\ Fail(err)
            /\ hist' = [hist EXCEPT !.stepFailed = TRUE]
       ELSE /\ locals' = [locals EXCEPT !.loadedFromSecretStorage = TRUE]
            /\ Step("readActive")
            /\ UNCHANGED hist
  /\ UNCHANGED serverBackup
  /\ ApiFrame

\* `await crypto.restoreKeyBackup()` settles; the catch block turns a rejection into
\* fail(message).
restoreRoomKeyBackup_restore(err) ==
  /\ api.op = "restoreRoomKeyBackup"
  /\ api.pc = "restore"
  /\ IF Failed(err)
       THEN /\ Fail(err)
            /\ hist' = [hist EXCEPT !.stepFailed = TRUE]
       ELSE /\ Step("status")
            /\ UNCHANGED <<locals, hist>>
  /\ UNCHANGED serverBackup
  /\ ApiFrame

\* The status query after the restore or inside fail() settles, and
\* restoreRoomKeyBackup returns its result.
restoreRoomKeyBackup_returns(attempted) ==
  /\ api.op = "restoreRoomKeyBackup"
  /\ api.pc \in {"status", "fail"}
  /\ NestedKeyLoad(attempted)
  /\ hist' = [hist EXCEPT !.loadCalls = IF attempted THEN @ + 1 ELSE @]
  /\ IF api.pc = "status"
       THEN Return("restoreRoomKeyBackup", TRUE, Undefined, locals.backup)
       ELSE Return("restoreRoomKeyBackup", FALSE, locals.error, locals.backup)
  /\ UNCHANGED <<locals, serverBackup>>
  /\ ApiFrame

\* ---- bootstrapOwnDeviceVerification (sdk.ts:841-904)

\* bootstrapOwnDeviceVerification() with encryption disabled.
bootstrapOwnDeviceVerification_disabled ==
  /\ ApiIdle
  /\ api.calls < MaxCalls
  /\ ~encryptionEnabled
  /\ api' = [NoCall EXCEPT !.calls = api.calls + 1]
  /\ result' = [NoResult EXCEPT !.op = "bootstrapOwnDeviceVerification",
                                !.settled = "returned", !.error = ErrDisabled]
  /\ locals' = Locals0
  /\ hist' = Hist0
  /\ UNCHANGED <<pc, serverBackup>>
  /\ ApiFrame

\* bootstrapOwnDeviceVerification() from the end of initializeCryptoIfNeeded to its
\* next await, inside the try block: a rejection of initializeCryptoIfNeeded, the
\* crypto check and a malformed recovery key each become bootstrapError.
bootstrapOwnDeviceVerification_afterInit(recoveryKey, err) ==
  /\ api.op = "none"
  /\ pc["bootstrapOwnDeviceVerification"] \in {"afterInit", "initRejected"}
  /\ LET rejected == pc["bootstrapOwnDeviceVerification"] = "initRejected"
         thrown == IF rejected THEN err
                   ELSE IF ~cryptoInitialized THEN ErrNoCrypto
                   ELSE IF recoveryKey = "malformed" THEN err
                   ELSE Undefined IN
       /\ api' = [op |-> "bootstrapOwnDeviceVerification",
                  pc |-> IF Failed(thrown) THEN "verification" ELSE "bootstrap",
                  calls |-> api.calls + 1]
       /\ locals' = [Locals0 EXCEPT !.bootstrapError = thrown]
       /\ hist' = [Hist0 EXCEPT !.stepFailed = Failed(thrown),
                                 !.keyRejected = ~rejected /\ cryptoInitialized
                                                 /\ recoveryKey = "malformed",
                                 !.keyError = IF ~rejected /\ cryptoInitialized
                                                 /\ recoveryKey = "malformed"
                                                THEN err ELSE Undefined,
                                 !.recordBefore = storedRecoveryKey]
       /\ storedRecoveryKey' = StoredBy(~rejected /\ cryptoInitialized, recoveryKey)
  /\ result' = NoResult
  /\ pc' = Set(pc, "bootstrapOwnDeviceVerification", "afterInit")
  /\ UNCHANGED serverBackup
  /\ StoringFrame

\* `await this.cryptoBootstrapper.bootstrap(crypto, {..., strict: true})` settles.
bootstrapOwnDeviceVerification_bootstrap(err) ==
  /\ api.op = "bootstrapOwnDeviceVerification"
  /\ api.pc = "bootstrap"
  /\ locals' = [locals EXCEPT !.bootstrapError = err]
  /\ hist' = [hist EXCEPT !.stepFailed = Failed(err), !.bootstrapCalls = @ + 1]
  /\ Step(IF Failed(err) THEN "verification" ELSE "ensureBackup")
  /\ UNCHANGED serverBackup
  /\ ApiFrame

\* ensureRoomKeyBackupEnabled (sdk.ts:973-990), up to its second await: the version
\* check settles, and without a version a new backup is asked for.
ensureRoomKeyBackupEnabled(requestOk) ==
  /\ api.op = "bootstrapOwnDeviceVerification"
  /\ api.pc = "ensureBackup"
  /\ IF Truthy(resolveRoomKeyBackupVersion(requestOk))
       THEN /\ Step("verification")
            /\ UNCHANGED hist
       ELSE /\ hist' = [hist EXCEPT !.createRequests = @ + 1,
                                    !.existingAtRequest = serverBackup]
            /\ Step("createBackup")
  /\ UNCHANGED <<locals, serverBackup>>
  /\ ApiFrame

\* `await this.recoveryKeyStore.bootstrapSecretStorageWithRecoveryKey(crypto,
\* {setupNewKeyBackup: true})` settles: a new backup version exists, or the call
\* is rejected.
ensureRoomKeyBackupEnabled_created(err) ==
  /\ api.op = "bootstrapOwnDeviceVerification"
  /\ api.pc = "createBackup"
  /\ IF Failed(err)
       THEN /\ locals' = [locals EXCEPT !.bootstrapError = err]
            /\ hist' = [hist EXCEPT !.stepFailed = TRUE]
            /\ Step("verification")
            /\ UNCHANGED serverBackup
       ELSE /\ serverBackup' = serverBackup + 1
            /\ Step("checkCreated")
            /\ UNCHANGED <<locals, hist>>
  /\ ApiFrame

\* The second version check of ensureRoomKeyBackupEnabled settles; without a
\* version it throws.
ensureRoomKeyBackupEnabled_checked(requestOk) ==
  /\ api.op = "bootstrapOwnDeviceVerification"
  /\ api.pc = "checkCreated"
  /\ IF Truthy(resolveRoomKeyBackupVersion(requestOk))
       THEN UNCHANGED <<locals, hist>>
       ELSE /\ locals' = [locals EXCEPT !.bootstrapError = ErrStillMissing]
            /\ hist' = [hist EXCEPT !.stepFailed = TRUE]
  /\ Step("verification")
  /\ UNCHANGED serverBackup
  /\ ApiFrame

\* The error is the bootstrap error whenever there is one.
BootstrapResult_alwaysReportsError(verified, published, bootstrapError) ==
  [success |-> verified /\ published,
   error |-> IF Failed(bootstrapError) THEN bootstrapError
             ELSE IF verified /\ published THEN Undefined ELSE ErrBootstrapIncomplete]

\* `success = verification.verified && crossSigning.published` and
\* `error = success ? undefined : (bootstrapError ?? "...")`
BootstrapResult(verified, published, bootstrapError) ==
  [success |-> verified /\ published,
   error |-> IF verified /\ published THEN Undefined
             ELSE IF Failed(bootstrapError) THEN bootstrapError
             ELSE ErrBootstrapIncomplete]

\* The final status queries settle and bootstrapOwnDeviceVerification returns.
bootstrapOwnDeviceVerification_returns(verified, published, attempted) ==
  /\ api.op = "bootstrapOwnDeviceVerification"
  /\ api.pc = "verification"
  /\ NestedKeyLoad(attempted)
  /\ verified => cryptoInitialized
  /\ hist' = [hist EXCEPT !.verified = verified, !.published = published,
                          !.loadCalls = IF attempted THEN @ + 1 ELSE @]
  /\ LET r == BootstrapResult(verified, published, locals.bootstrapError) IN
       Return("bootstrapOwnDeviceVerification", r.success, r.error, locals.backup)
  /\ UNCHANGED <<locals, serverBackup>>
  /\ ApiFrame

\* ---- verifyWithRecoveryKey (sdk.ts:665-719)

\* verifyWithRecoveryKey(rawRecoveryKey), up to its first await: the checks that
\* end in fail(), and storeEncodedRecoveryKey, which throws on a malformed key.
verifyWithRecoveryKey(rawRecoveryKey, err) ==
  /\ ApiIdle
  /\ api.calls < MaxCalls
  /\ LET error == IF ~encryptionEnabled THEN ErrDisabled
                  ELSE IF ~cryptoInitialized THEN ErrNoCrypto
                  ELSE IF rawRecoveryKey = "blank" THEN ErrKeyRequired
                  ELSE IF rawRecoveryKey = "malformed" THEN err
                  ELSE Undefined IN
       /\ Enter("verifyWithRecoveryKey", IF Failed(error) THEN "fail" ELSE "bootstrap")
       /\ locals' = [Locals0 EXCEPT !.error = error]
       /\ hist' = [Hist0 EXCEPT !.stepFailed = encryptionEnabled /\ cryptoInitialized
                                               /\ rawRecoveryKey = "malformed",
                                 !.keyRejected = encryptionEnabled /\ cryptoInitialized
                                                 /\ rawRecoveryKey = "malformed",
                                 !.keyError = IF encryptionEnabled /\ cryptoInitialized
                                                 /\ rawRecoveryKey = "malformed"
                                                THEN err ELSE Undefined,
                                 !.recordBefore = storedRecoveryKey]
       /\ storedRecoveryKey' =
            StoredBy(encryptionEnabled /\ cryptoInitialized, rawRecoveryKey)
  /\ UNCHANGED <<pc, serverBackup>>
  /\ StoringFrame

\* `await this.cryptoBootstrapper.bootstrap(crypto)` settles.
verifyWithRecoveryKey_bootstrap ==
  /\ api.op = "verifyWithRecoveryKey"
  /\ api.pc = "bootstrap"
  /\ hist' = [hist EXCEPT !.bootstrapCalls = @ + 1]
  /\ Step("status")
  /\ UNCHANGED <<locals, serverBackup>>
  /\ ApiFrame

\* getOwnDeviceVerificationStatus settles, after the bootstrap or inside fail(), and
\* verifyWithRecoveryKey returns its result.
verifyWithRecoveryKey_returns(verified, attempted) ==
  /\ api.op = "verifyWithRecoveryKey"
  /\ api.pc \in {"status", "fail"}
  /\ NestedKeyLoad(attempted)
  /\ verified => cryptoInitialized
  /\ hist' = [hist EXCEPT !.verified = verified,
                          !.loadCalls = IF attempted THEN @ + 1 ELSE @]
  /\ IF api.pc = "fail"
       THEN Return("verifyWithRecoveryKey", FALSE, locals.error, locals.backup)
       ELSE Return("verifyWithRecoveryKey", verified,
                   IF verified THEN Undefined ELSE ErrStillUnverified, locals.backup)
  /\ UNCHANGED <<locals, serverBackup>>
  /\ ApiFrame

\* ---- specification

\* The facade's verification and backup operations called one after the other, at
\* most MaxCalls of them, on any backend and any server state.
InitOperations ==
  /\ encryptionEnabled \in BOOLEAN
  /\ password = FALSE
  /\ InitFields
  /\ InitCli
  /\ api = NoCall
  /\ locals = Locals0
  /\ result = NoResult
  /\ serverBackup \in {0, 1}
  /\ caps \in [canLoad : BOOLEAN, canRestore : BOOLEAN]
  /\ hist = Hist0
  /\ InitSide

NextOperations ==
  \/ getRoomKeyBackupStatus
  \/ \E requestOk \in BOOLEAN : getRoomKeyBackupStatus_version(requestOk)
  \/ \E activeVersion \in ActiveVersions, decryptionKeyCached \in Tri :
       getRoomKeyBackupStatus_localState(activeVersion, decryptionKeyCached)
  \/ \E infoOk \in BOOLEAN, trusted \in Tri, matchesDecryptionKey \in Tri :
       getRoomKeyBackupStatus_trustState(infoOk, trusted, matchesDecryptionKey)
  \/ \E err \in ErrorTexts \cup {Undefined} : getRoomKeyBackupStatus_load(err)
  \/ \E infoOk \in BOOLEAN, trusted \in Tri, matchesDecryptionKey \in Tri :
       getRoomKeyBackupStatus_returns(infoOk, trusted, matchesDecryptionKey)
  \/ ApiIdle /\ api.calls < MaxCalls /\ restoreRoomKeyBackup
  \/ ApiIdle /\ api.calls < MaxCalls /\ bootstrapOwnDeviceVerification
  \/ \E op \in {"restoreRoomKeyBackup", "bootstrapOwnDeviceVerification"}, ok \in BOOLEAN :
       \/ restoreIdbFromDisk_settles(op, ok)
       \/ initRustCrypto_settles(op, ok)
       \/ persistIdbToDisk_settles(op, ok)
  \/ restoreRoomKeyBackup_disabled
  \/ \E recoveryKey \in RecoveryKeys, err \in ErrorTexts :
       restoreRoomKeyBackup_afterInit(recoveryKey, err)
  \/ \E activeVersion \in ActiveVersions : restoreRoomKeyBackup_activeVersion(activeVersion)
  \/ \E err \in ErrorTexts \cup {Undefined} : restoreRoomKeyBackup_load(err)
  \/ \E err \in ErrorTexts \cup {Undefined} : restoreRoomKeyBackup_restore(err)
  \/ \E attempted \in BOOLEAN : restoreRoomKeyBackup_returns(attempted)
  \/ bootstrapOwnDeviceVerification_disabled
  \/ \E recoveryKey \in RecoveryKeys, err \in ErrorTexts :
       bootstrapOwnDeviceVerification_afterInit(recoveryKey, err)
  \/ \E err \in ErrorTexts \cup {Undefined} : bootstrapOwnDeviceVerification_bootstrap(err)
  \/ \E requestOk \in BOOLEAN : ensureRoomKeyBackupEnabled(requestOk)
  \/ \E err \in ErrorTexts \cup {Undefined} : ensureRoomKeyBackupEnabled_created(err)
  \/ \E requestOk \in BOOLEAN : ensureRoomKeyBackupEnabled_checked(requestOk)
  \/ \E verified \in BOOLEAN, published \in BOOLEAN, attempted \in BOOLEAN :
       bootstrapOwnDeviceVerification_returns(verified, published, attempted)
  \/ \E rawRecoveryKey \in RecoveryKeys, err \in ErrorTexts :
       verifyWithRecoveryKey(rawRecoveryKey, err)
  \/ verifyWithRecoveryKey_bootstrap
  \/ \E verified \in BOOLEAN, attempted \in BOOLEAN :
       verifyWithRecoveryKey_returns(verified, attempted)

SpecOperations == InitOperations /\ [][NextOperations]_vars

\* ------------------------------------------------------- bootstrap readiness
\* The device counts as verified only when every signal holds.
isMatrixDeviceVerified_allRequired(status) ==
  /\ status.present
  /\ status.isVerified
  /\ status.localVerified
  /\ status.crossSigningVerified
  /\ status.signedByOwner

\* isMatrixDeviceVerified (sdk.ts:104-113): a null status is not verified, and any one
\* of isVerified(), localVerified, crossSigningVerified, signedByOwner suffices.
isMatrixDeviceVerified(status) ==
  /\ status.present
  /\ \/ status.isVerified
     \/ status.localVerified
     \/ status.crossSigningVerified
     \/ status.signedByOwner

\* getOwnCrossSigningPublicationStatus (sdk.ts:800-839): published when the
\* /keys/query answer holds the user's master, self-signing and user-signing key;
\* a failing query counts as nothing published.
CrossSigningPublished(keys) ==
  keys.queryOk /\ keys.master /\ keys.selfSigning /\ keys.userSigning

\* The bootstrapper's evaluation after the bootstrap call: cross-signing ready,
\* published on the server, and the own device verified.
BootstrapReady(keys, status) ==
  keys.ready /\ CrossSigningPublished(keys) /\ isMatrixDeviceVerified(status)

\* Any answer of the backend and the server is about to be evaluated.
InitReadiness ==
  /\ encryptionEnabled = TRUE
  /\ password = FALSE
  /\ InitFields
  /\ InitCli
  /\ InitApi
  /\ deviceStatus \in {NoDeviceStatus} \cup
       [present : {TRUE}, isVerified : BOOLEAN, localVerified : BOOLEAN,
        crossSigningVerified : BOOLEAN, signedByOwner : BOOLEAN]
  /\ crossSigning \in [ready : BOOLEAN, queryOk : BOOLEAN, master : BOOLEAN,
                       selfSigning : BOOLEAN, userSigning : BOOLEAN]
  /\ readiness = NoReadiness
  /\ InitTransport
  /\ InitStore
  /\ InitCommand
  /\ InitInvites
  /\ InitPoolIdle

\* The readiness is evaluated from the device status and the cross-signing state.
evaluateReadiness ==
  /\ ~readiness.evaluated
  /\ readiness' = [evaluated |-> TRUE,
                   verified |-> isMatrixDeviceVerified(deviceStatus),
                   published |-> CrossSigningPublished(crossSigning),
                   ready |-> BootstrapReady(crossSigning, deviceStatus)]
  /\ lastSignal' = FALSE
  /\ UNCHANGED <<commandVars, inviteVars>>
  /\ UNCHANGED <<configVars, cliVars, apiVars, deviceStatus, crossSigning, transportVars,
                 exposureVars, poolVars, dockerVars,
                 storeVars, stopAndPersistVars, bootstrapHistory, sessionVars, bridgeVars,
                 backendVars, emitVars, stopHistory, tickHistory, retryHistory>>

NextReadiness == evaluateReadiness

SpecReadiness == InitReadiness /\ [][NextReadiness]_vars

\* -------------------------------------------------------- hardened transport
\* doRequest hands the endpoint, the configured timeout and allowAbsoluteEndpoint to
\* the authed HTTP client, which makes the network calls.

Schemes == {"https", "http"}
Hosts == {"matrix.example.org", "cdn.example.org"}
Origins == [scheme : Schemes, host : Hosts]

\* The endpoints of a request: a path relative to the homeserver, or an absolute URL
\* on some origin.
Endpoints == {[absolute |-> FALSE, origin |-> Homeserver]} \cup
             [absolute : {TRUE}, origin : Origins]

\* What a step of the transport leaves alone.
TransportFrame ==
  /\ lastSignal' = FALSE
  /\ UNCHANGED <<commandVars, inviteVars>>
  /\ UNCHANGED <<configVars, cliVars, apiVars, readinessVars, exposureVars, poolVars,
                 dockerVars, storeVars, stopAndPersistVars, bootstrapHistory,
                 sessionVars, bridgeVars, backendVars, emitVars, stopHistory,
                 tickHistory, retryHistory>>

\* The call fails or completes: the deadline is cleared.
Settle(outcome) ==
  /\ request' = [request EXCEPT !.state = "done", !.outcome = outcome]
  /\ deadline' = "unset"

\* An absolute URL on the homeserver's own origin is let through.
doRequest_trustsOwnOrigin(endpoint, allowAbsoluteEndpoint) ==
  /\ request.state # "pending"
  /\ LET call == [NoRequest EXCEPT !.absolute = endpoint.absolute,
                                   !.allowAbsoluteEndpoint = allowAbsoluteEndpoint,
                                   !.origin = endpoint.origin] IN
       IF endpoint.absolute /\ ~allowAbsoluteEndpoint /\ endpoint.origin # Homeserver
         THEN /\ request' = [call EXCEPT !.state = "done", !.outcome = "blocked-endpoint"]
              /\ fetches' = <<>>
              /\ deadline' = "unset"
         ELSE /\ request' = [call EXCEPT !.state = "pending", !.authorization = TRUE]
              /\ fetches' = <<[origin |-> endpoint.origin, authorization |-> TRUE]>>
              /\ deadline' = "armed"
  /\ TransportFrame

\* The request is sent without a deadline.
doRequest_noDeadline(endpoint, allowAbsoluteEndpoint) ==
  /\ request.state # "pending"
  /\ LET call == [NoRequest EXCEPT !.absolute = endpoint.absolute,
                                   !.allowAbsoluteEndpoint = allowAbsoluteEndpoint,
                                   !.origin = endpoint.origin] IN
       IF endpoint.absolute /\ ~allowAbsoluteEndpoint
         THEN /\ request' = [call EXCEPT !.state = "done", !.outcome = "blocked-endpoint"]
              /\ fetches' = <<>>
              /\ deadline' = "unset"
         ELSE /\ request' = [call EXCEPT !.state = "pending", !.authorization = TRUE]
              /\ fetches' = <<[origin |-> endpoint.origin, authorization |-> TRUE]>>
              /\ deadline' = "unset"
  /\ TransportFrame

\* doRequest(method, endpoint, qs, body, {allowAbsoluteEndpoint}): an absolute
\* endpoint is refused before any network call unless allowAbsoluteEndpoint is set;
\* otherwise the request is sent with the access token, bound to the timeout.
doRequest(endpoint, allowAbsoluteEndpoint) ==
  /\ request.state # "pending"
  /\ LET call == [NoRequest EXCEPT !.absolute = endpoint.absolute,
                                   !.allowAbsoluteEndpoint = allowAbsoluteEndpoint,
                                   !.origin = endpoint.origin] IN
       IF endpoint.absolute /\ ~allowAbsoluteEndpoint
         THEN /\ request' = [call EXCEPT !.state = "done", !.outcome = "blocked-endpoint"]
              /\ fetches' = <<>>
              /\ deadline' = "unset"
         ELSE /\ request' = [call EXCEPT !.state = "pending", !.authorization = TRUE]
              /\ fetches' = <<[origin |-> endpoint.origin, authorization |-> TRUE]>>
              /\ deadline' = "armed"
  /\ TransportFrame

\* The server answers with a final response.
response_received ==
  /\ request.state = "pending"
  /\ deadline # "passed"
  /\ Settle("response")
  /\ UNCHANGED fetches
  /\ TransportFrame

\* The network call fails by itself.
fetch_fails ==
  /\ request.state = "pending"
  /\ deadline # "passed"
  /\ Settle("network-error")
  /\ UNCHANGED fetches
  /\ TransportFrame

\* Every redirect is followed with the headers of the request before it.
redirect_received_keepsAuthorization(target) ==
  /\ request.state = "pending"
  /\ deadline # "passed"
  /\ request.redirects < MaxRedirects
  /\ IF target.scheme # request.origin.scheme
       THEN /\ request' = [request EXCEPT !.state = "done", !.refused = target,
                                          !.outcome = "cross-protocol-redirect"]
            /\ deadline' = "unset"
            /\ UNCHANGED fetches
       ELSE /\ request' = [request EXCEPT !.origin = target, !.redirects = @ + 1]
            /\ fetches' = Append(fetches, [origin |-> target,
                                           authorization |-> request.authorization])
            /\ UNCHANGED deadline
  /\ TransportFrame

\* A redirect is followed whatever its scheme.
redirect_received_anyProtocol(target) ==
  /\ request.state = "pending"
  /\ deadline # "passed"
  /\ request.redirects < MaxRedirects
  /\ LET authorization == request.authorization /\ target = request.origin IN
       /\ request' = [request EXCEPT !.origin = target, !.redirects = @ + 1,
                                     !.authorization = authorization]
       /\ fetches' = Append(fetches, [origin |-> target, authorization |-> authorization])
       /\ UNCHANGED deadline
  /\ TransportFrame

\* The server answers with a redirect to target: a change of scheme fails the
\* request; otherwise the redirect is followed, without the Authorization header
\* once the origin has changed.
redirect_received(target) ==
  /\ request.state = "pending"
  /\ deadline # "passed"
  /\ request.redirects < MaxRedirects
  /\ IF target.scheme # request.origin.scheme
       THEN /\ request' = [request EXCEPT !.state = "done", !.refused = target,
                                          !.outcome = "cross-protocol-redirect"]
            /\ deadline' = "unset"
            /\ UNCHANGED fetches
       ELSE LET authorization == request.authorization /\ target = request.origin IN
            /\ request' = [request EXCEPT !.origin = target, !.redirects = @ + 1,
                                          !.authorization = authorization]
            /\ fetches' = Append(fetches, [origin |-> target,
                                           authorization |-> authorization])
            /\ UNCHANGED deadline
  /\ TransportFrame

\* The configured timeout passes while the request is in flight: the network call
\* is aborted.
deadline_passes ==
  /\ request.state = "pending"
  /\ deadline = "armed"
  /\ deadline' = "passed"
  /\ UNCHANGED <<request, fetches>>
  /\ TransportFrame

\* The aborted network call rejects and the request fails.
request_aborted ==
  /\ request.state = "pending"
  /\ deadline = "passed"
  /\ Settle("timeout")
  /\ UNCHANGED fetches
  /\ TransportFrame

InitHttp ==
  /\ encryptionEnabled = FALSE
  /\ password = FALSE
  /\ InitFields
  /\ InitCli
  /\ InitApi
  /\ InitSide

NextHttp ==
  \/ \E endpoint \in Endpoints, allowAbsoluteEndpoint \in BOOLEAN :
       doRequest(endpoint, allowAbsoluteEndpoint)
  \/ response_received
  \/ fetch_fails
  \/ \E target \in Origins : redirect_received(target)
  \/ deadline_passes
  \/ request_aborted

SpecHttp == InitHttp /\ [][NextHttp]_vars

\* The timer of a deadline fires, and an aborted network call rejects.
SpecHttpLive ==
  /\ SpecHttp
  /\ WF_vars(deadline_passes)
  /\ WF_vars(request_aborted)

\* --------------------------------------------------------- recovery-key store
\* MatrixRecoveryKeyStore (constructed at sdk.ts:179) keeps the recovery key the
\* facade's operations hand it and answers the crypto backend's secret-storage
\* callback; the facade and the CLI report on it.

\* The callback answers with the stored key whatever key ids are asked for.
getSecretStorageKey_anyCandidate(record, keys) ==
  [found |-> record.stored, keyId |-> record.keyId, privateKey |-> record.privateKey]

\* The secret-storage key callback, asked for one of the key ids `keys`: the stored
\* key id and private key when the stored key is one of them, null otherwise.
getSecretStorageKey(record, keys) ==
  IF record.stored /\ record.keyId \in keys
    THEN [found |-> TRUE, keyId |-> record.keyId, privateKey |-> record.privateKey]
    ELSE [found |-> FALSE, keyId |-> Null, privateKey |-> <<>>]

\* getRecoveryKeySummary(): key id and creation time of the stored record.
getRecoveryKeySummary(record) ==
  [NoOutput EXCEPT !.kind = "summary",
                   !.recoveryKeyStored = record.stored,
                   !.recoveryKeyCreatedAt = record.createdAt,
                   !.recoveryKeyId = record.keyId]

\* getOwnDeviceVerificationStatus(): the recovery-key fields come from the summary.
getOwnDeviceVerificationStatus(record, verified) ==
  [getRecoveryKeySummary(record) EXCEPT !.kind = "status", !.verified = verified]

\* The results of verifyWithRecoveryKey, bootstrapOwnDeviceVerification and
\* restoreRoomKeyBackup: success, error and the verification or backup status.
OperationResult(record, success, error, verified) ==
  [getOwnDeviceVerificationStatus(record, verified) EXCEPT
     !.kind = "result", !.success = success, !.error = error]

\* printVerificationStatus: the text output of `verify status`.
printVerificationStatus(status) ==
  [NoOutput EXCEPT !.kind = "text",
                   !.verified = status.verified,
                   !.recoveryKeyStored = status.recoveryKeyStored,
                   !.recoveryKeyCreatedAt = status.recoveryKeyCreatedAt]

\* getMatrixVerificationStatus({includeRecoveryKey}) as the `verify status` command
\* calls it: with --include-recovery-key the stored recovery key is in the payload.
getMatrixVerificationStatus(record, verified, includeRecoveryKey) ==
  [getOwnDeviceVerificationStatus(record, verified) EXCEPT
     !.recoveryKey = IF includeRecoveryKey /\ record.stored
                       THEN encodeRecoveryKey(record.privateKey) ELSE Null]

\* The `verify status` command: --json prints the payload, otherwise the text.
verifyStatusOutput(record, verified, includeRecoveryKey, json) ==
  LET status == getMatrixVerificationStatus(record, verified, includeRecoveryKey) IN
    IF json THEN [status EXCEPT !.kind = "json"] ELSE printVerificationStatus(status)

\* What a step of the store and its reporting leaves alone.
KeysFrame ==
  /\ lastSignal' = FALSE
  /\ UNCHANGED <<commandVars, inviteVars>>
  /\ UNCHANGED <<configVars, cliVars, apiVars, readinessVars, transportVars, poolVars,
                 dockerVars, stopAndPersistVars, bootstrapHistory, sessionVars, bridgeVars,
                 backendVars, emitVars, stopHistory, tickHistory, retryHistory>>

\* An operation hands a recovery key to the store; the second session is handed
\* its own.
storeRecoveryKey(encodedPrivateKey, keyId, now) ==
  /\ storedRecoveryKey' =
       storeEncodedRecoveryKey(storedRecoveryKey, encodedPrivateKey, keyId, now)
  /\ twinRecoveryKey' =
       storeEncodedRecoveryKey(twinRecoveryKey, Twin(encodedPrivateKey), keyId, now)
  /\ storedRecoveryKey' # storedRecoveryKey
  /\ UNCHANGED <<secretStorageKey, exposed, twinExposed>>
  /\ KeysFrame

\* The crypto backend asks the callback for one of the key ids `keys`.
secretStorageKeyAsked(keys) ==
  /\ secretStorageKey' = [asked |-> TRUE, keys |-> keys, record |-> storedRecoveryKey,
                          returned |-> getSecretStorageKey(storedRecoveryKey, keys)]
  /\ secretStorageKey' # secretStorageKey
  /\ UNCHANGED <<storedRecoveryKey, twinRecoveryKey, exposed, twinExposed>>
  /\ KeysFrame

\* Both sessions report `output` of their record.
Expose(output, twinOutput) ==
  /\ exposed' = output
  /\ twinExposed' = twinOutput
  /\ exposed' # exposed
  /\ UNCHANGED <<storedRecoveryKey, twinRecoveryKey, secretStorageKey>>
  /\ KeysFrame

\* The summary of the stored key is asked for.
summaryReported ==
  Expose(getRecoveryKeySummary(storedRecoveryKey), getRecoveryKeySummary(twinRecoveryKey))

\* The own-device verification status is asked for.
statusReported(verified) ==
  Expose(getOwnDeviceVerificationStatus(storedRecoveryKey, verified),
         getOwnDeviceVerificationStatus(twinRecoveryKey, verified))

\* A verify, bootstrap or restore operation returns.
resultReported(success, error, verified) ==
  Expose(OperationResult(storedRecoveryKey, success, error, verified),
         OperationResult(twinRecoveryKey, success, error, verified))

\* `openclaw matrix-js verify status [--include-recovery-key] [--json]` prints.
verifyStatusPrinted(verified, includeRecoveryKey, json) ==
  Expose(verifyStatusOutput(storedRecoveryKey, verified, includeRecoveryKey, json),
         verifyStatusOutput(twinRecoveryKey, verified, includeRecoveryKey, json))

InitKeys ==
  /\ encryptionEnabled = TRUE
  /\ password = FALSE
  /\ InitFields
  /\ InitCli
  /\ InitApi
  /\ InitSide

NextKeys ==
  \/ \E encodedPrivateKey \in EncodedKeys, keyId \in KeyIds \cup {Null}, now \in Timestamps :
       storeRecoveryKey(encodedPrivateKey, keyId, now)
  \/ \E keys \in SUBSET KeyIds : secretStorageKeyAsked(keys)

\* The store and the secret-storage callback.
SpecKeys == InitKeys /\ [][NextKeys]_vars

NextExposure ==
  \/ \E encodedPrivateKey \in EncodedKeys, keyId \in KeyIds \cup {Null}, now \in Timestamps :
       storeRecoveryKey(encodedPrivateKey, keyId, now)
  \/ summaryReported
  \/ \E verified \in BOOLEAN : statusReported(verified)
  \/ \E success \in BOOLEAN, error \in {Undefined, InvalidRecoveryKey},
        verified \in BOOLEAN : resultReported(success, error, verified)
  \/ \E verified \in BOOLEAN, includeRecoveryKey \in BOOLEAN, json \in BOOLEAN :
       verifyStatusPrinted(verified, includeRecoveryKey, json)

\* The store and what the facade and the CLI report of it, in two sessions.
SpecExposure == InitKeys /\ [][NextExposure]_vars

\* ------------------------------------------------------------------ agent pool
\* pool-manager.sh boots (autostart), then socat forks one pool-handler.sh per
\* connection; the handlers share state.json through pool-lib.sh. A section of
\* code that runs under the exclusive flock, and a read_state under the shared
\* one, is one step; what a function does after `flock -u` or between two locked
\* sections is a step of its own.

\* MAX_AGENTS of pool.env (default 3), here a pool of two.
MAX_AGENTS == 2

\* EVICT_GRACE_SECONDS of pool.env (default 60), in units of the clock.
EVICT_GRACE_SECONDS == 1

\* The agent containers of the compose project.
AgentNames == {"ceo", "cfo", "cto"}

\* The contents of autostart.txt.
AutostartFiles == {<<>>, <<"ceo">>, <<"ceo", "cfo", "cto">>}

\* state.json after `.agents[$a] = {...last_active: $now}` or
\* `.agents[$a].last_active = $now`: the entry is written, created if absent.
WithAgent(state, a, time) ==
  [b \in DOMAIN state \cup {a} |-> IF b = a THEN time ELSE state[b]]

\* state.json after `del(.agents[$a])`.
WithoutAgent(state, a) == [b \in DOMAIN state \ {a} |-> state[b]]

\* Any agent but the requested one is a victim.
LruVictims_noRule(state, exclude, time) == DOMAIN state \ {exclude}

\* The victim selection of request_agent: of the recorded agents other than
\* `exclude` whose last_active is before time - EVICT_GRACE_SECONDS, those with the
\* oldest last_active (jq takes the first of them); none if all are protected.
LruVictims(state, exclude, time) ==
  LET eligible == {b \in DOMAIN state \ {exclude} :
                     state[b] < time - EVICT_GRACE_SECONDS} IN
    {v \in eligible : \A b \in eligible : state[v] <= state[b]}

\* What a step of the pool leaves alone outside the pool.
PoolOnlyFrame ==
  /\ lastSignal' = FALSE
  /\ UNCHANGED <<commandVars, inviteVars>>
  /\ UNCHANGED <<configVars, cliVars, apiVars, readinessVars, transportVars,
                 exposureVars, storeVars, stopAndPersistVars, bootstrapHistory,
                 sessionVars, bridgeVars, backendVars, emitVars, stopHistory,
                 tickHistory, retryHistory>>

\* What a step of the pool model without containers leaves alone.
PoolFrame ==
  /\ PoolOnlyFrame
  /\ UNCHANGED dockerVars

\* The handler h moves on.
HandlerGoes(h, to, agent, victim) ==
  handlers' = [handlers EXCEPT ![h] = [pc |-> to, agent |-> agent, victim |-> victim]]

\* A second passes.
tick ==
  /\ clock < MaxTime
  /\ clock' = clock + 1
  /\ UNCHANGED <<agents, handlers, boot>>
  /\ PoolFrame

\* One line of autostart.txt (pool-manager.sh:80-104): skipped when the slots
\* counted at boot are used up or the agent is recorded, started otherwise; after
\* the last line the manager listens.
autostart(up) ==
  /\ ~boot.serving
  /\ IF boot.rest = <<>>
       THEN /\ boot' = [boot EXCEPT !.serving = TRUE]
            /\ UNCHANGED agents
       ELSE LET agent == Head(boot.rest) IN
            IF boot.current_running + boot.count >= MAX_AGENTS \/ agent \in DOMAIN agents
              THEN /\ boot' = [boot EXCEPT !.rest = Tail(@)]
                   /\ UNCHANGED agents
              ELSE IF up
                THEN /\ agents' = WithAgent(agents, agent, clock)
                     /\ boot' = [boot EXCEPT !.rest = Tail(@), !.count = @ + 1]
                ELSE \* start_agent fails and `set -e` ends the manager
                     /\ boot' = [boot EXCEPT !.rest = <<>>]
                     /\ UNCHANGED agents
  /\ UNCHANGED <<clock, handlers>>
  /\ PoolFrame

\* POST /request: request_agent (pool-lib.sh:142-208) up to the end of its locked
\* section: a recorded agent gets its last_active renewed; with a free slot the
\* lock is released before the start; with a full pool a victim is chosen and
\* the lock released before the stop, or the request ends with pool_full.
request_agent(h, agent) ==
  /\ boot.serving
  /\ handlers[h].pc = "idle"
  /\ IF agent \in DOMAIN agents
       THEN /\ agents' = WithAgent(agents, agent, clock)
            /\ UNCHANGED handlers
       ELSE IF Cardinality(DOMAIN agents) < MAX_AGENTS
         THEN /\ HandlerGoes(h, "start", agent, "")
              /\ UNCHANGED agents
         ELSE IF LruVictims(agents, agent, clock) # {}
           THEN /\ \E victim \in LruVictims(agents, agent, clock) :
                     HandlerGoes(h, "evict", agent, victim)
                /\ UNCHANGED agents
           ELSE UNCHANGED <<agents, handlers>>
  /\ UNCHANGED <<clock, boot>>
  /\ PoolFrame

\* stop_agent "$victim" inside request_agent: the container stops and its entry
\* is deleted.
request_agent_stop(h) ==
  /\ handlers[h].pc = "evict"
  /\ agents' = WithoutAgent(agents, handlers[h].victim)
  /\ HandlerGoes(h, "start", handlers[h].agent, handlers[h].victim)
  /\ UNCHANGED <<clock, boot>>
  /\ PoolFrame

\* start_agent "$agent" inside request_agent: docker compose up, and on success
\* the entry is written; the handler answers.
request_agent_start(h, up) ==
  /\ handlers[h].pc = "start"
  /\ agents' = IF up THEN WithAgent(agents, handlers[h].agent, clock) ELSE agents
  /\ HandlerGoes(h, "idle", "", "")
  /\ UNCHANGED <<clock, boot>>
  /\ PoolFrame

\* POST /release: release_agent reads the state; a recorded agent is stopped next.
release_agent(h, agent) ==
  /\ boot.serving
  /\ handlers[h].pc = "idle"
  /\ agent \in DOMAIN agents
  /\ HandlerGoes(h, "release", agent, "")
  /\ UNCHANGED <<agents, clock, boot>>
  /\ PoolFrame

\* stop_agent "$agent" inside release_agent.
release_agent_stop(h) ==
  /\ handlers[h].pc = "release"
  /\ agents' = WithoutAgent(agents, handlers[h].agent)
  /\ HandlerGoes(h, "idle", "", "")
  /\ UNCHANGED <<clock, boot>>
  /\ PoolFrame

\* POST /heartbeat: do_heartbeat reads the state; a recorded agent is touched next.
do_heartbeat(h, agent) ==
  /\ boot.serving
  /\ handlers[h].pc = "idle"
  /\ agent \in DOMAIN agents
  /\ HandlerGoes(h, "heartbeat", agent, "")
  /\ UNCHANGED <<agents, clock, boot>>
  /\ PoolFrame

\* modify_state '.agents[$a].last_active = $now' inside do_heartbeat.
do_heartbeat_write(h) ==
  /\ handlers[h].pc = "heartbeat"
  /\ agents' = WithAgent(agents, handlers[h].agent, clock)
  /\ HandlerGoes(h, "idle", "", "")
  /\ UNCHANGED <<clock, boot>>
  /\ PoolFrame

\* The manager boots with an empty state.json and some autostart.txt.
InitPool ==
  /\ encryptionEnabled = FALSE
  /\ password = FALSE
  /\ InitFields
  /\ InitCli
  /\ InitApi
  /\ deviceStatus = NoDeviceStatus
  /\ crossSigning = NoCrossSigning
  /\ readiness = NoReadiness
  /\ InitTransport
  /\ InitStore
  /\ InitCommand
  /\ InitInvites
  /\ agents = NoAgents
  /\ clock = 0
  /\ handlers = [h \in Handlers |-> IdleHandler]
  /\ boot \in [serving : {FALSE}, rest : AutostartFiles, current_running : {0},
               count : {0}]
  /\ containers = {}
  /\ activity = {}

NextPool ==
  \/ tick
  \/ \E up \in BOOLEAN : autostart(up)
  \/ \E h \in Handlers, agent \in AgentNames : request_agent(h, agent)
  \/ \E h \in Handlers : request_agent_stop(h)
  \/ \E h \in Handlers, up \in BOOLEAN : request_agent_start(h, up)
  \/ \E h \in Handlers, agent \in AgentNames : release_agent(h, agent)
  \/ \E h \in Handlers : release_agent_stop(h)
  \/ \E h \in Handlers, agent \in AgentNames : do_heartbeat(h, agent)
  \/ \E h \in Handlers : do_heartbeat_write(h)

SpecPool == InitPool /\ [][NextPool]_vars

\* ----------------------------------------------- agent pool: reconciliation
\* The same scripts with the containers and the activity directory: sync_activity
\* looks at the agents that have an activity file, reconcile_state at the agents of
\* state.json. start_agent and stop_agent are followed call by call: docker, then
\* modify_state, then the activity file. Two agents fit the pool of two, so that
\* request_agent always finds a free slot here. Time stands still.

\* The agents of this part.
SyncAgents == {"ceo", "cfo"}

\* What the manager may find at boot: entries left in state.json by an earlier run.
LeftEntries == {NoAgents, [a \in {"ceo"} |-> 0], [a \in SyncAgents |-> 0]}

\* The handler h moves on with its agent.
Next_(h, to) == handlers' = [handlers EXCEPT ![h].pc = to]

\* One pass of sync_activity over one activity file (pool-manager.sh:17-41): an
\* agent whose container is not running loses its entry and its file.
sync_activity(agent) ==
  /\ boot.serving
  /\ agent \in activity
  /\ agent \notin containers
  /\ agents' = WithoutAgent(agents, agent)
  /\ activity' = activity \ {agent}
  /\ UNCHANGED <<clock, handlers, boot, containers>>
  /\ PoolOnlyFrame

\* reconcile_state (pool-manager.sh:43-65) at boot: entries without a running
\* container go, with their files; the others get their files. Then the sync loop
\* starts and the manager listens (autostart.txt is empty here).
reconcile_state ==
  /\ ~boot.serving
  /\ agents' = [a \in DOMAIN agents \cap containers |-> agents[a]]
  /\ activity' = (activity \ DOMAIN agents) \cup (DOMAIN agents \cap containers)
  /\ boot' = [boot EXCEPT !.serving = TRUE]
  /\ UNCHANGED <<clock, handlers, containers>>
  /\ PoolOnlyFrame

\* A container stops outside the pool manager.
container_exits(agent) ==
  /\ boot.serving
  /\ agent \in containers
  /\ containers' = containers \ {agent}
  /\ UNCHANGED <<agents, clock, handlers, boot, activity>>
  /\ PoolOnlyFrame

\* POST /request: the locked section of request_agent: a recorded agent has its
\* last_active renewed and its activity file touched; otherwise there is a free
\* slot and start_agent follows.
request_agent_locked(h, agent) ==
  /\ boot.serving
  /\ handlers[h].pc = "idle"
  /\ IF agent \in DOMAIN agents
       THEN /\ agents' = WithAgent(agents, agent, clock)
            /\ activity' = activity \cup {agent}
            /\ UNCHANGED handlers
       ELSE /\ Cardinality(DOMAIN agents) < MAX_AGENTS
            /\ HandlerGoes(h, "up", agent, "")
            /\ UNCHANGED <<agents, activity>>
  /\ UNCHANGED <<clock, boot, containers>>
  /\ PoolOnlyFrame

\* start_agent: `docker compose up -d`; a failure ends the request.
start_agent_up(h, up) ==
  /\ handlers[h].pc = "up"
  /\ containers' = IF up THEN containers \cup {handlers[h].agent} ELSE containers
  /\ IF up THEN Next_(h, "record") ELSE HandlerGoes(h, "idle", "", "")
  /\ UNCHANGED <<agents, clock, boot, activity>>
  /\ PoolOnlyFrame

\* start_agent: modify_state writes the entry.
start_agent_record(h) ==
  /\ handlers[h].pc = "record"
  /\ agents' = WithAgent(agents, handlers[h].agent, clock)
  /\ Next_(h, "touch")
  /\ UNCHANGED <<clock, boot, containers, activity>>
  /\ PoolOnlyFrame

\* start_agent: `touch "$ACTIVITY_DIR/$agent"`; the handler answers.
start_agent_touch(h) ==
  /\ handlers[h].pc = "touch"
  /\ activity' = activity \cup {handlers[h].agent}
  /\ HandlerGoes(h, "idle", "", "")
  /\ UNCHANGED <<agents, clock, boot, containers>>
  /\ PoolOnlyFrame

\* POST /release: release_agent finds the agent recorded; stop_agent follows.
release_agent_checked(h, agent) ==
  /\ boot.serving
  /\ handlers[h].pc = "idle"
  /\ agent \in DOMAIN agents
  /\ HandlerGoes(h, "stop", agent, "")
  /\ UNCHANGED <<agents, clock, boot, containers, activity>>
  /\ PoolOnlyFrame

\* stop_agent: `docker compose stop` (or kill).
stop_agent_stop(h) ==
  /\ handlers[h].pc = "stop"
  /\ containers' = containers \ {handlers[h].agent}
  /\ Next_(h, "del")
  /\ UNCHANGED <<agents, clock, boot, activity>>
  /\ PoolOnlyFrame

\* stop_agent: modify_state deletes the entry.
stop_agent_del(h) ==
  /\ handlers[h].pc = "del"
  /\ agents' = WithoutAgent(agents, handlers[h].agent)
  /\ Next_(h, "rm")
  /\ UNCHANGED <<clock, boot, containers, activity>>
  /\ PoolOnlyFrame

\* stop_agent: `rm -f "$ACTIVITY_DIR/$agent"`; the handler answers.
stop_agent_rm(h) ==
  /\ handlers[h].pc = "rm"
  /\ activity' = activity \ {handlers[h].agent}
  /\ HandlerGoes(h, "idle", "", "")
  /\ UNCHANGED <<agents, clock, boot, containers>>
  /\ PoolOnlyFrame

\* What a handler with a request in hand does next.
HandlerStep(h) ==
  \/ \E up \in BOOLEAN : start_agent_up(h, up)
  \/ start_agent_record(h)
  \/ start_agent_touch(h)
  \/ stop_agent_stop(h)
  \/ stop_agent_del(h)
  \/ stop_agent_rm(h)

\* The manager boots on what an earlier run left: entries, containers, files.
InitSync ==
  /\ encryptionEnabled = FALSE
  /\ password = FALSE
  /\ InitFields
  /\ InitCli
  /\ InitApi
  /\ deviceStatus = NoDeviceStatus
  /\ crossSigning = NoCrossSigning
  /\ readiness = NoReadiness
  /\ InitTransport
  /\ InitStore
  /\ InitCommand
  /\ InitInvites
  /\ agents \in LeftEntries
  /\ clock = 0
  /\ handlers = [h \in Handlers |-> IdleHandler]
  /\ boot = [serving |-> FALSE, rest |-> <<>>, current_running |-> 0, count |-> 0]
  /\ containers \in SUBSET SyncAgents
  /\ activity \in SUBSET SyncAgents

NextSync ==
  \/ reconcile_state
  \/ \E agent \in SyncAgents : sync_activity(agent)
  \/ \E agent \in SyncAgents : container_exits(agent)
  \/ \E h \in Handlers, agent \in SyncAgents : request_agent_locked(h, agent)
  \/ \E h \in Handlers, agent \in SyncAgents : release_agent_checked(h, agent)
  \/ \E h \in Handlers : HandlerStep(h)

\* The boot runs, the sync loop comes round to every activity file, and a handler
\* runs to its end.
SpecSync ==
  /\ InitSync
  /\ [][NextSync]_vars
  /\ WF_vars(reconcile_state)
  /\ \A agent \in SyncAgents : WF_vars(sync_activity(agent))
  /\ \A h \in Handlers : WF_vars(HandlerStep(h))

\* ------------------------------------------------- verification commands (CLI)
\* runMatrixCliCommand (cli.ts:211-236) runs one command of the process: the action,
\* the output, the exit code, and the exit it schedules.

\* The commands with a shouldFail (cli.ts:656, 713, 750) and the two status commands
\* without one (cli.ts:579-592, 604-615).
VerifyCommands == {"verify device", "verify bootstrap", "verify backup restore"}
StatusCommands == {"verify status", "verify backup status"}

\* How config.run() ends: a result with success true, one with success false, or
\* a throw. A status result has no success field to fail on.
Outcomes == {"success", "failure", "throws"}

\* A shouldFail that never fails the command.
shouldFail_never(name, outcome) == FALSE

\* config.shouldFail?.(result) (cli.ts:222): `(result) => !result.success` for the
\* three commands, undefined for the others.
shouldFail(name, outcome) == name \in VerifyCommands /\ outcome = "failure"

\* cli.ts:33-35
markCliFailure == 1

\* The exit code runMatrixCliCommand leaves (cli.ts:215-232).
ExitCodeAfter(name, outcome, code) ==
  IF outcome = "throws" THEN markCliFailure
  ELSE IF shouldFail(name, outcome) THEN markCliFailure
  ELSE code

\* What runMatrixCliCommand prints (cli.ts:217-221, 226-230).
Printed(json, outcome) ==
  IF outcome = "throws" THEN (IF json THEN "json error" ELSE "stderr")
  ELSE IF json THEN "json" ELSE "text"

\* What a step of the command leaves alone.
CommandFrame ==
  /\ lastSignal' = FALSE
  /\ UNCHANGED <<configVars, cliVars, apiVars, readinessVars, transportVars,
                 exposureVars, poolVars, dockerVars, inviteVars, storeVars,
                 stopAndPersistVars, bootstrapHistory, sessionVars, bridgeVars,
                 backendVars, emitVars, stopHistory, tickHistory, retryHistory>>

\* runMatrixCliCommand (cli.ts:211-236) up to the scheduled exit.
runMatrixCliCommand(name, json, outcome) ==
  /\ command.pc = "idle"
  /\ exitCode' = ExitCodeAfter(name, outcome, exitCode)
  /\ command' = [pc |-> "scheduled", name |-> name, json |-> json, outcome |-> outcome,
                 before |-> exitCode, printed |-> Printed(json, outcome),
                 status |-> UndefinedExitCode]
  /\ CommandFrame

\* The timer of scheduleMatrixJsCliExit fires (cli.ts:22-31):
\* process.exit(process.exitCode ?? 0).
scheduleMatrixJsCliExit ==
  /\ command.pc = "scheduled"
  /\ command' = [command EXCEPT !.pc = "exited",
                   !.status = IF exitCode = UndefinedExitCode THEN 0 ELSE exitCode]
  /\ UNCHANGED exitCode
  /\ CommandFrame

\* The process starts with the exit code unset, 0, or non-zero.
InitCommandRun ==
  /\ encryptionEnabled = FALSE
  /\ password = FALSE
  /\ InitFields
  /\ InitCli
  /\ InitApi
  /\ deviceStatus = NoDeviceStatus
  /\ crossSigning = NoCrossSigning
  /\ readiness = NoReadiness
  /\ InitTransport
  /\ InitStore
  /\ InitPoolIdle
  /\ InitInvites
  /\ exitCode \in {UndefinedExitCode, 0, 1, 2}
  /\ command = NoCommand

NextCommand ==
  \/ \E name \in VerifyCommands \cup StatusCommands, json \in BOOLEAN,
        outcome \in Outcomes : runMatrixCliCommand(name, json, outcome)
  \/ scheduleMatrixJsCliExit

SpecCommand == InitCommandRun /\ [][NextCommand]_vars

\* ------------------------------------------------------ invites and joins
\* The membership part of the event bridge (sdk.ts:1015-1037), the Room lifecycle
\* listener (sdk.ts:1034-1036), and the replay at the end of start() (sdk.ts:269,
\* 1073-1085). The session has encryption disabled, so that start() is registerBridge,
\* startClient, then the replay.

\* getMyMembership() of a room; "undefined" stands for a room object without one.
Memberships == {"invite", "join", "leave"}

\* roomObj.roomId?.trim() (sdk.ts:1046)
trim(roomId) == IF roomId = BlankRoomId THEN "" ELSE roomId

\* this.emitter.emit("room.invite" | "room.join", roomId, raw)
EmitMembership(em, roomId, name) == [em EXCEPT ![roomId][name] = @ + 1]

\* emitMembershipForRoom that takes a joined room for an invite.
emitMembershipForRoom_joinAsInvite(em, roomId, membership, self) ==
  IF trim(roomId) = "" \/ self = "" THEN em
  ELSE IF membership \in {"invite", "join"} THEN EmitMembership(em, trim(roomId), "invite")
  ELSE em

\* emitMembershipForRoom (sdk.ts:1040-1071)
emitMembershipForRoom(em, roomId, membership, self) ==
  IF trim(roomId) = "" THEN em
  ELSE IF self = "" THEN em
  ELSE IF membership = "invite" THEN EmitMembership(em, trim(roomId), "invite")
  ELSE IF membership = "join" THEN EmitMembership(em, trim(roomId), "join")
  ELSE em

\* The for loop of emitOutstandingInviteEvents (sdk.ts:1082-1084) over the rooms
\* getRooms() returns.
RECURSIVE emitOutstandingInviteEvents(_, _, _, _)
emitOutstandingInviteEvents(em, list, known, self) ==
  IF list = {} THEN em
  ELSE LET room == CHOOSE r \in list : TRUE
       IN emitOutstandingInviteEvents(emitMembershipForRoom(em, room, known[room], self),
                                      list \ {room}, known, self)

\* The membership part of the Event listener (sdk.ts:1015-1027).
onMemberEvent(em, roomId, state_key, membership, self) ==
  IF state_key # "" /\ self # "" /\ state_key = self
  THEN IF membership = "invite" THEN EmitMembership(em, roomId, "invite")
       ELSE IF membership = "join" THEN EmitMembership(em, roomId, "join")
       ELSE em
  ELSE em

\* No more than MaxInvites emissions per room are followed.
WithinInvites(em) == \A room \in Rooms : em[room].invite + em[room].join <= MaxInvites

\* What a step of the membership bridge leaves alone.
InvitesFrame ==
  /\ lastSignal' = FALSE
  /\ UNCHANGED <<configVars, cliVars, apiVars, readinessVars, transportVars,
                 exposureVars, poolVars, dockerVars, commandVars, storeVars,
                 stopAndPersistVars, bootstrapHistory, cryptoBootstrapped,
                 cryptoInitialized, idbPersistTimer, pc, leakedTimers, bridgeVars,
                 backendVars, emitVars, stopHistory, tickHistory, retryHistory>>

\* The first sync, which start() awaits in startClient, brings the own membership
\* of a room into the SDK's store.
membership_changes(room, membership) ==
  /\ clientRunning /\ ~started
  /\ rooms[room] # membership
  /\ rooms' = Set(rooms, room, membership)
  /\ bridgeInput' = [NoBridgeInput EXCEPT !.kind = "sync"]
  /\ UNCHANGED <<selfUserId, roomEmits, bridgeRegistered, started, clientRunning>>
  /\ InvitesFrame

\* start() up to startClient (sdk.ts:254-264): the listeners are registered and the
\* client syncs.
start_registerBridge ==
  /\ ~started /\ ~clientRunning
  /\ bridgeRegistered' = TRUE
  /\ clientRunning' = TRUE
  /\ bridgeInput' = [NoBridgeInput EXCEPT !.kind = "startClient"]
  /\ UNCHANGED <<selfUserId, rooms, roomEmits, started>>
  /\ InvitesFrame

\* The end of start() (sdk.ts:268-269): started, then the replay.
start_emitOutstandingInviteEvents ==
  /\ ~started /\ clientRunning
  /\ started' = TRUE
  /\ roomEmits' = emitOutstandingInviteEvents(roomEmits, Rooms, rooms, selfUserId)
  /\ WithinInvites(roomEmits')
  /\ bridgeInput' = [NoBridgeInput EXCEPT !.kind = "start"]
  /\ UNCHANGED <<selfUserId, rooms, bridgeRegistered, clientRunning>>
  /\ InvitesFrame

\* The SDK emits an m.room.member event of a room (sdk.ts:998-1027, membership part).
ClientEvent_Event(room, state_key, membership) ==
  /\ bridgeRegistered /\ clientRunning
  /\ roomEmits' = onMemberEvent(roomEmits, room, state_key, membership, selfUserId)
  /\ WithinInvites(roomEmits')
  /\ bridgeInput' = [kind |-> "Event", room |-> room, state_key |-> state_key,
                     membership |-> membership]
  /\ UNCHANGED <<selfUserId, rooms, bridgeRegistered, started, clientRunning>>
  /\ InvitesFrame

\* The SDK emits a Room lifecycle event (sdk.ts:1034-1036).
ClientEvent_Room(roomId, membership) ==
  /\ bridgeRegistered /\ clientRunning
  /\ roomEmits' = emitMembershipForRoom(roomEmits, roomId, membership, selfUserId)
  /\ WithinInvites(roomEmits')
  /\ bridgeInput' = [kind |-> "Room", room |-> roomId, state_key |-> "",
                     membership |-> membership]
  /\ UNCHANGED <<selfUserId, rooms, bridgeRegistered, started, clientRunning>>
  /\ InvitesFrame

\* A client with encryption disabled; the own user id is known to the client or from
\* the options, or to neither (sdk.ts:177, 1016, 1051); the store may hold rooms.
InitInvitesRun ==
  /\ encryptionEnabled = FALSE
  /\ password = FALSE
  /\ InitFields
  /\ InitCli
  /\ InitApi
  /\ deviceStatus = NoDeviceStatus
  /\ crossSigning = NoCrossSigning
  /\ readiness = NoReadiness
  /\ InitTransport
  /\ InitStore
  /\ InitPoolIdle
  /\ InitCommand
  /\ selfUserId \in {BotUserId, ""}
  /\ rooms \in [Rooms -> Memberships]
  /\ roomEmits = [room \in Rooms |-> [invite |-> 0, join |-> 0]]
  /\ bridgeInput = NoBridgeInput

NextInvites ==
  \/ \E room \in Rooms, membership \in Memberships : membership_changes(room, membership)
  \/ start_registerBridge
  \/ start_emitOutstandingInviteEvents
  \/ \E room \in Rooms, state_key \in UserIds \cup {""}, membership \in Memberships :
       ClientEvent_Event(room, state_key, membership)
  \/ \E roomId \in Rooms \cup {BlankRoomId}, membership \in Memberships \cup {"undefined"} :
       ClientEvent_Room(roomId, membership)

SpecInvites == InitInvitesRun /\ [][NextInvites]_vars

\* ------------------------------------------------------------------ claims
Tracked(k) == decryptRetries[k] # NoEntry

Count(name, k) == emitted[name][k]

\* A backend retry-decrypt call for k is started in this step.
CallStarted(k) == inFlightCalls'[k] > inFlightCalls[k]

\* C1: a pending entry whose retries all fail makes at most 8 backend retry calls;
\* once the cap has removed it (Failed-Terminal) it made exactly the 8 calls, is no
\* longer tracked and has no call outstanding, whatever timers and key-available
\* signals follow.
C1_RetryCap ==
  \A k \in Keys :
    /\ decryptRetries[k].calls <= MATRIX_DECRYPT_RETRY_MAX_ATTEMPTS
    /\ terminalCalls[k] <= MATRIX_DECRYPT_RETRY_MAX_ATTEMPTS
    /\ terminalCalls[k] > 0 => ~Tracked(k) /\ inFlightCalls[k] = 0

C1_Witness == \E k \in Keys : terminalCalls[k] = MATRIX_DECRYPT_RETRY_MAX_ATTEMPTS

\* C2: for every (room id, event id) at most one retry-decrypt call is outstanding at
\* any time.
C2_OneRetryInFlight == \A k \in Keys : inFlightCalls[k] <= 1

\* A key-available signal was just handled while a timer-started retry of k was in
\* flight, and k still has the one call outstanding.
C2_Witness ==
  /\ lastSignal
  /\ \E k \in Keys : /\ decryptRetries[k].inFlight
                     /\ decryptRetries[k].startedBy = "timer"
                     /\ inFlightCalls[k] = 1

\* C3: once room.message was emitted for an event no room.failed_decryption is emitted
\* for it; and the room.message of an event that arrived encrypted comes after its
\* room.encrypted_event or room.failed_decryption.
C3_NoFailureAfterMessage ==
  [][\A k \in Keys :
       /\ Count("room.message", k) > 0 =>
            Count("room.failed_decryption", k)' = Count("room.failed_decryption", k)
       /\ (Count("room.message", k)' > Count("room.message", k) /\ sdkEvent'[k] = "decrypted") =>
            Count("room.encrypted_event", k) + Count("room.failed_decryption", k) > 0]_vars

C3_Witness ==
  \E k \in Keys : Count("room.message", k) > 0 /\ Count("room.failed_decryption", k) > 0

C5_MessageOnlyAfterDecryption ==
  [][\A k \in Keys :
       /\ Count("room.encrypted_event", k)' > Count("room.encrypted_event", k) =>
            Count("room.message", k)' = Count("room.message", k)
       /\ (Count("room.message", k)' > Count("room.message", k)
           /\ Count("room.encrypted_event", k) > 0) => sdkEvent'[k] = "decrypted"
       /\ entriesCreated'[k] > entriesCreated[k] =>
            /\ Count("room.failed_decryption", k)' = Count("room.failed_decryption", k) + 1
            /\ Count("room.message", k)' = Count("room.message", k)]_vars

C5_Witness ==
  \E k \in Keys : /\ Count("room.encrypted_event", k) > 0
                  /\ Count("room.failed_decryption", k) > 0
                  /\ Count("room.message", k) = 0

\* C6: the key-available signal starts, in the step that handles it, a retry-decrypt
\* call for every pending entry that has no retry in flight, cancelling its timer.
C6_ImmediateRetryOnKeySignal ==
  [][lastSignal' =>
       \A k \in Keys : CanStartRetry(k) =>
         /\ decryptRetries'[k].inFlight
         /\ ~decryptRetries'[k].timer
         /\ inFlightCalls'[k] = inFlightCalls[k] + 1]_vars

\* A first retry that the signal started before the entry's first deadline.
C6_Witness ==
  \E k \in Keys : /\ decryptRetries[k].inFlight
                  /\ decryptRetries[k].startedBy = "signal"
                  /\ decryptRetries[k].attempts = 1

\* C7: when the backend decrypts a tracked event its entry is removed and room.message
\* is emitted with the decrypted event; afterwards the event is never tracked again
\* and no retry-decrypt call is started for it.
C7_SuccessEndsRetries ==
  [][\A k \in Keys :
       /\ (Tracked(k) /\ sdkEvent[k] = "undecrypted" /\ sdkEvent'[k] = "decrypted") =>
            /\ ~Tracked(k)'
            /\ Count("room.message", k)' = Count("room.message", k) + 1
            /\ messageRaw'[k] = "m.room.message"
       /\ sdkEvent[k] = "decrypted" => ~Tracked(k)' /\ ~CallStarted(k)]_vars

\* An event that had a pending entry was decrypted after a retry call and delivered.
C7_Witness ==
  \E k \in Keys : /\ sdkEvent[k] = "decrypted"
                  /\ entriesCreated[k] > 0
                  /\ ~Tracked(k)
                  /\ Count("room.message", k) = 1
                  /\ messageRaw[k] = "m.room.message"

\* C8: every pending entry created comes with exactly one room.failed_decryption,
\* emitted in the step that creates it; failing retries and the retry cap emit none.
C8_OneFailureNotification ==
  \A k \in Keys : Count("room.failed_decryption", k) = entriesCreated[k]

C8_Witness ==
  \E k \in Keys : /\ terminalCalls[k] > 0
                  /\ Count("room.failed_decryption", k) = 1

C10_NoPeriodicPersistAfterStop == ~lateTick

\* C11: every stop() call starts exactly one final persistence flush, in the same
\* step that clears the periodic timer field and stops the decrypt bridge;
\* stopAndPersist() settles only once the flush its stop() started has settled, and
\* it resolves whether that flush succeeded or failed.
C11_OneFinalFlushPerStop ==
  [][/\ stopCalls' # stopCalls =>
          /\ stopCalls' = stopCalls + 1
          /\ finalPersists' = finalPersists + 1
          /\ finalFlush[stopCalls'] = "none" /\ finalFlush'[stopCalls'] = "pending"
          /\ ~idbPersistTimer'
          /\ ~cryptoRetrySignalsBound'
          /\ \A k \in Keys : ~Tracked(k)'
     /\ finalPersists' # finalPersists => stopCalls' # stopCalls
     /\ (stopAndPersistAwaits = 0 /\ stopAndPersistAwaits' # 0) =>
          /\ stopCalls' = stopCalls + 1
          /\ stopAndPersistAwaits' = stopCalls'
     /\ (stopAndPersistAwaits # 0 /\ stopAndPersistAwaits' = 0) =>
          finalFlush[stopAndPersistAwaits] \in {"ok", "failed"}
     /\ stopAndPersistResult' # "rejected"]_vars

\* A stopAndPersist() call resolved although its final flush failed, after a stop()
\* that cancelled a running periodic timer.
C11_Witness ==
  /\ stopAndPersistResult = "resolved"
  /\ \E i \in 1..MaxStops : finalFlush[i] = "failed"
  /\ cryptoInitialized

\* C12: during the automatic bootstrap of start() a bootstrap call with
\* forceResetCrossSigning and strict is awaited only after a first attempt that
\* reported crossSigningPublished = false or ownDeviceVerified = false, with a
\* password configured, and it carries both options; with no password configured the
\* forced call is never made.
C12_ForcedResetNeedsPassword ==
  [][/\ (pc'["start"] = "forcedBootstrap" /\ pc["start"] # "forcedBootstrap") =>
          /\ pc["start"] = "bootstrap"
          /\ password
          /\ ~bootstrapReport'.crossSigningPublished \/ bootstrapReport'.ownDeviceVerified = "false"
          /\ bootstrapOptions' = [forceResetCrossSigning |-> TRUE, strict |-> TRUE]
     /\ (bootstrapOptions'.forceResetCrossSigning \/ bootstrapOptions'.strict) =>
          pc'["start"] = "forcedBootstrap"
     /\ ~password => pc'["start"] # "forcedBootstrap"]_vars

\* The forced reset is awaited after a first attempt that published the keys but
\* reported the own device unverified.
C12_Witness ==
  /\ pc["start"] = "forcedBootstrap"
  /\ bootstrapReport = [crossSigningPublished |-> TRUE, ownDeviceVerified |-> "false"]
  /\ bootstrapOptions.forceResetCrossSigning

\* C14: a snapshot whose serverVersion is null is diagnosed missing-server-backup,
\* whatever its other fields hold.
C14_MissingServerBackupFirst ==
  (issue # NoIssue /\ backup.serverVersion = Null) => issue.code = "missing-server-backup"

\* A snapshot without server version that is trusted, active, matching and cached.
C14_Witness ==
  /\ issue.code = "missing-server-backup"
  /\ backup.serverVersion = Null
  /\ backup.activeVersion = "1"
  /\ backup.trusted = "true"
  /\ backup.matchesDecryptionKey = "true"
  /\ backup.decryptionKeyCached = "true"

IssueCodes ==
  {"missing-server-backup", "key-load-failed", "key-not-loaded", "key-mismatch",
   "untrusted-signature", "inactive", "indeterminate", "ok"}

\* The priority order as a list of rules, each a condition and the code it gives.
PriorityRules(b) ==
  << <<~Truthy(b.serverVersion), "missing-server-backup">>,
     <<b.decryptionKeyCached = "false" /\ Truthy(b.keyLoadError), "key-load-failed">>,
     <<b.decryptionKeyCached = "false", "key-not-loaded">>,
     <<b.matchesDecryptionKey = "false", "key-mismatch">>,
     <<b.trusted = "false", "untrusted-signature">>,
     <<~Truthy(b.activeVersion), "inactive">>,
     <<"null" \in {b.trusted, b.matchesDecryptionKey, b.decryptionKeyCached}, "indeterminate">>,
     <<TRUE, "ok">> >>

\* The code of the first rule whose condition holds.
PriorityCode(b) ==
  LET rules == PriorityRules(b)
      first == CHOOSE i \in 1..Len(rules) :
                 rules[i][1] /\ \A j \in 1..(i - 1) : ~rules[j][1]
  IN rules[first][2]

C16_KeyNotCachedDiagnosis ==
  (issue # NoIssue /\ Truthy(backup.serverVersion) /\ backup.decryptionKeyCached = "false") =>
    IF Truthy(backup.keyLoadError)
    THEN /\ issue.code = "key-load-failed"
         /\ issue.message =
              <<"backup decryption key could not be loaded from secret storage (",
                backup.keyLoadError, ")">>
    ELSE IF backup.keyLoadAttempted
    THEN /\ issue.code = "key-not-loaded"
         /\ issue.message =
              <<"backup decryption key is not loaded on this device (secret storage did not return a key)">>
    ELSE /\ issue.code = "key-not-loaded"
         /\ issue.message = <<"backup decryption key is not loaded on this device">>

\* A failed load of the key of a trusted, active backup.
C16_Witness ==
  /\ issue.code = "key-load-failed"
  /\ backup.keyLoadAttempted
  /\ backup.trusted = "true"
  /\ Truthy(backup.activeVersion)
  /\ issue.message[2] = backup.keyLoadError

\* A getRoomKeyBackupStatus call has returned; hist is the history of that call.
StatusReturned == result.op = "getRoomKeyBackupStatus" /\ result.settled = "returned"

\* C17 (as amended): one getRoomKeyBackupStatus call makes at most one load attempt
\* from secret storage, and makes it exactly when the server has a backup version,
\* the local decryption key is absent and the backend supports loading it;
\* keyLoadAttempted is true exactly when the attempt was made, keyLoadError holds the
\* attempt's error when it failed, and after an attempt the returned local and trust
\* fields come from the second read.
C17_StatusLoadsKeyOnce ==
  StatusReturned =>
    /\ hist.loadCalls <= 1
    /\ hist.loadCalls = 1 <=> /\ hist.reads > 0
                              /\ Truthy(hist.firstRead.serverVersion)
                              /\ hist.firstRead.decryptionKeyCached = "false"
                              /\ caps.canLoad
    /\ result.backup.keyLoadAttempted <=> hist.loadCalls = 1
    /\ hist.loadCalls = 1 /\ Failed(hist.loadError) =>
         result.backup.keyLoadError = hist.loadError
    /\ hist.loadCalls = 1 => hist.reads = 2

\* A status call that found a server version and no cached key loaded the key, the
\* load failed, and the snapshot it returned was read again.
C17_Witness ==
  /\ StatusReturned
  /\ hist.loadCalls = 1
  /\ hist.loadError = "boom"
  /\ result.backup.keyLoadError = "boom"
  /\ hist.reads = 2

\* C17 as stated: the load attempt is made exactly when the local decryption key is
\* absent and the backend supports loading it.
C17_LoadsWheneverKeyAbsent ==
  StatusReturned =>
    (hist.loadCalls = 1 <=> /\ hist.reads > 0
                            /\ hist.firstRead.decryptionKeyCached = "false"
                            /\ caps.canLoad)

\* C13: bootstrapOwnDeviceVerification asks for a new room-key backup only when the
\* server has none: while a server backup exists, no bootstrap call asks for
\* another version.
C13_BackupRequestedOnlyIfAbsent ==
  hist.createRequests > 0 => hist.existingAtRequest = 0

\* A restoreRoomKeyBackup call has returned; hist is the history of that call.
RestoreReturned == result.op = "restoreRoomKeyBackup" /\ result.settled = "returned"

\* C18: restoreRoomKeyBackup never silently no-ops: it reports success only after the
\* backend's restoreKeyBackup was invoked; when no backup is active locally and the
\* backend cannot load from secret storage it returns success=false with the
\* descriptive error and has invoked neither the load nor the restore; and every
\* success=false result carries a non-empty error.
C18_RestoreNeverSilentlyNoOps ==
  RestoreReturned =>
    /\ result.success => hist.restoreCalls = 1
    /\ hist.failedFast => /\ ~result.success
                          /\ result.error = ErrCannotLoad
                          /\ hist.loadCalls = 0
                          /\ hist.restoreCalls = 0
    /\ ~result.success => result.error \notin {Undefined, ""}

\* The parts of C18 that hold: success only after the restore was invoked, and the
\* fail-fast result when nothing is active and nothing can be loaded.
C18_RestoreFailsFast ==
  RestoreReturned =>
    /\ result.success => hist.restoreCalls = 1
    /\ hist.failedFast => /\ ~result.success
                          /\ result.error = ErrCannotLoad
                          /\ hist.loadCalls = 0
                          /\ hist.restoreCalls = 0
    /\ ~result.success => result.error # Undefined

\* The operations whose outcome is a success/failure result value.
ResultOps == {"bootstrapOwnDeviceVerification", "restoreRoomKeyBackup", "verifyWithRecoveryKey"}

BootstrapReturned ==
  /\ result.op = "bootstrapOwnDeviceVerification"
  /\ result.settled = "returned"
  /\ encryptionEnabled

\* C20: the result of bootstrapOwnDeviceVerification has success=true exactly when the
\* final own-device status is verified and the cross-signing keys are published, and
\* an error string exactly when success=false: the error of an intermediate step
\* is not reported when the final state is healthy, and is the reported error when
\* it is not.
C20_BootstrapResultFollowsFinalState ==
  BootstrapReturned =>
    /\ result.success <=> hist.verified /\ hist.published
    /\ result.error # Undefined <=> ~result.success
    /\ ~result.success /\ Failed(locals.bootstrapError) =>
         result.error = locals.bootstrapError
    /\ ~result.success /\ ~Failed(locals.bootstrapError) =>
         result.error = ErrBootstrapIncomplete

\* A recovery key was rejected or a bootstrap step failed, the final state was
\* healthy all the same, and the result reports success without an error.
C20_Witness ==
  /\ BootstrapReturned
  /\ hist.stepFailed
  /\ Failed(locals.bootstrapError)
  /\ hist.verified
  /\ hist.published
  /\ result.success
  /\ result.error = Undefined

C22_AbsoluteEndpointBlocked ==
  request.state # "none" /\ request.absolute /\ ~request.allowAbsoluteEndpoint =>
    /\ request.state = "done"
    /\ request.outcome = "blocked-endpoint"
    /\ fetches = <<>>

\* An absolute URL on the homeserver's own origin was requested without the option
\* and was refused.
C22_Witness ==
  /\ request.state = "done"
  /\ request.absolute
  /\ request.origin = Homeserver
  /\ ~request.allowAbsoluteEndpoint
  /\ request.outcome = "blocked-endpoint"

\* C23: when a redirect is followed, a same-origin redirect keeps the Authorization
\* header of the request before it and a cross-origin redirect is followed without
\* it, so the access token is sent to no origin but the one the request was
\* addressed to.
C23_TokenStaysOnOrigin ==
  \A i \in 1..Len(fetches) :
    /\ fetches[i].authorization => fetches[i].origin = fetches[1].origin
    /\ i > 1 => IF fetches[i].origin = fetches[i - 1].origin
                  THEN fetches[i].authorization = fetches[i - 1].authorization
                  ELSE ~fetches[i].authorization

\* A request was redirected on its own origin with the header, then to another
\* origin without it.
C23_Witness ==
  /\ Len(fetches) = 3
  /\ fetches[2].origin = fetches[1].origin
  /\ fetches[2].authorization
  /\ fetches[3].origin # fetches[1].origin
  /\ ~fetches[3].authorization

\* C24: a redirect whose target changes the scheme is never followed: the request
\* fails with the cross-protocol-redirect error and nothing is sent to the target.
C24_CrossProtocolRedirectRefused ==
  /\ \A i \in 2..Len(fetches) : fetches[i].origin.scheme = fetches[1].origin.scheme
  /\ request.outcome = "cross-protocol-redirect" =>
       /\ request.state = "done"
       /\ request.refused.scheme # fetches[Len(fetches)].origin.scheme
       /\ \A i \in 1..Len(fetches) : fetches[i].origin # request.refused

\* An https request was redirected to http and failed.
C24_Witness ==
  /\ request.outcome = "cross-protocol-redirect"
  /\ fetches[1].origin.scheme = "https"
  /\ request.refused.scheme = "http"
  /\ Len(fetches) = 2

\* C25: every transport request terminates: it completes with a response or fails,
\* and once its deadline has passed it is aborted and fails; none stays pending
\* for ever.
C25_RequestTerminates ==
  (request.state = "pending") ~> (request.state = "done")

\* A request ran into its deadline and failed with the timeout error.
C25_Witness ==
  /\ request.state = "done"
  /\ request.outcome = "timeout"
  /\ deadline = "unset"
  /\ Len(fetches) > 0

C26_WitnessNull ==
  /\ secretStorageKey.asked
  /\ secretStorageKey.record.stored
  /\ secretStorageKey.keys # {}
  /\ ~secretStorageKey.returned.found

\* The two sessions differ in key material only.
SessionsDifferInKeyOnly ==
  /\ storedRecoveryKey.stored = twinRecoveryKey.stored
  /\ storedRecoveryKey.keyId = twinRecoveryKey.keyId
  /\ storedRecoveryKey.createdAt = twinRecoveryKey.createdAt
  /\ storedRecoveryKey.stored => storedRecoveryKey.privateKey # twinRecoveryKey.privateKey

\* C27: no status, summary, result or CLI output depends on the recovery key's
\* bytes: two sessions that differ in key material only report the same.
C27_OutputsIndependentOfKey ==
  SessionsDifferInKeyOnly /\ exposed = twinExposed

\* What the facade itself returns, and the text output, are the same in both sessions.
C27_FacadeOutputsIndependentOfKey ==
  SessionsDifferInKeyOnly /\ (exposed.recoveryKey = Null => exposed = twinExposed)

\* C28: a malformed recovery key is never partially applied: the store rejects it
\* and the stored record stays what it was, and verifyWithRecoveryKey returns
\* success=false with the store's error without invoking the crypto bootstrap.
C28_MalformedKeyNotApplied ==
  hist.keyRejected =>
    /\ storedRecoveryKey = hist.recordBefore
    /\ hist.bootstrapCalls = 0
    /\ api.op = "verifyWithRecoveryKey" => api.pc = "fail"
    /\ result.op = "verifyWithRecoveryKey" /\ result.settled = "returned" =>
         ~result.success /\ result.error = hist.keyError

\* verifyWithRecoveryKey was called with a malformed key while a key was stored,
\* and has returned.
C28_Witness ==
  /\ hist.keyRejected
  /\ hist.recordBefore.stored
  /\ storedRecoveryKey = hist.recordBefore
  /\ result.op = "verifyWithRecoveryKey"
  /\ result.settled = "returned"
  /\ ~result.success
  /\ result.error = "boom"

\* C29: after any interleaving of request, release, heartbeat and autostart, the
\* number of agents recorded as running is at most MAX_AGENTS.
C29_PoolNeverExceedsMax ==
  Cardinality(DOMAIN agents) <= MAX_AGENTS


\* C30: when the pool is full and a request evicts, the victim is a recorded agent
\* other than the requested one whose last activity is older than the grace
\* period, and no such agent has an older last_active.
C30_VictimIsOldestUnprotected ==
  [][\A h \in Handlers :
       handlers[h].pc = "idle" /\ handlers'[h].pc = "evict" =>
         LET requested == handlers'[h].agent
             victim == handlers'[h].victim IN
           /\ Cardinality(DOMAIN agents) >= MAX_AGENTS
           /\ victim # requested
           /\ victim \in DOMAIN agents
           /\ agents[victim] < clock - EVICT_GRACE_SECONDS
           /\ \A b \in DOMAIN agents \ {requested} :
                agents[b] < clock - EVICT_GRACE_SECONDS => agents[victim] <= agents[b]]_vars

\* A request chose the older of two unprotected agents.
C30_Witness ==
  \E h \in Handlers :
    /\ handlers[h].pc = "evict"
    /\ handlers[h].victim \in DOMAIN agents
    /\ \E b \in DOMAIN agents :
         /\ b # handlers[h].victim
         /\ agents[handlers[h].victim] < agents[b]
         /\ agents[b] < clock - EVICT_GRACE_SECONDS

\* C31: an agent that was active within the last EVICT_GRACE_SECONDS is never
\* evicted: whenever a request stops its victim, the victim's last_active is older
\* than the grace period at that moment, also when a heartbeat arrived after the
\* victim was chosen.
C31_ProtectedAgentNeverEvicted ==
  [][\A h \in Handlers :
       handlers[h].pc = "evict" /\ handlers'[h].pc = "start"
         /\ handlers[h].victim \in DOMAIN agents =>
           agents[handlers[h].victim] < clock - EVICT_GRACE_SECONDS]_vars

\* A request goes on to stop or start an agent only with a free slot or with an
\* unprotected agent other than the requested one in the state; with a full pool
\* of protected agents it ends (pool_full) and changes nothing.
C31_PoolFullChangesNothing ==
  [][\A h \in Handlers :
       handlers[h].pc = "idle" /\ handlers'[h].pc \in {"evict", "start"} =>
         \/ Cardinality(DOMAIN agents) < MAX_AGENTS
         \/ \E b \in DOMAIN agents \ {handlers'[h].agent} :
              agents[b] < clock - EVICT_GRACE_SECONDS]_vars

\* C38: a heartbeat never adds an agent to the pool state: the write of a
\* heartbeat leaves the set of recorded agents as it is, also when the agent was
\* released or evicted after the heartbeat's check.
C38_HeartbeatAddsNoAgent ==
  [][\A h \in Handlers :
       handlers[h].pc = "heartbeat" /\ handlers'[h].pc = "idle" =>
         DOMAIN agents' = DOMAIN agents]_vars

\* A heartbeat for an agent that is not recorded is not begun, and the write of a
\* heartbeat changes at most the last_active of its own agent.
C38_HeartbeatTouchesOwnAgentOnly ==
  [][\A h \in Handlers :
       /\ handlers[h].pc = "idle" /\ handlers'[h].pc = "heartbeat" =>
            handlers'[h].agent \in DOMAIN agents /\ agents' = agents
       /\ handlers[h].pc = "heartbeat" /\ handlers'[h].pc = "idle" =>
            \A b \in DOMAIN agents \ {handlers[h].agent} :
              b \in DOMAIN agents' /\ agents'[b] = agents[b]]_vars

\* C32: an agent whose container is not running does not stay in the pool state
\* for ever: the sync loop or the startup reconcile removes it.
C32_StoppedAgentIsRemoved ==
  \A agent \in SyncAgents :
    (agent \in DOMAIN agents /\ agent \notin containers)
      ~> (agent \notin DOMAIN agents \/ agent \in containers)

\* An agent that has an activity file and whose container is not running does not
\* stay in the pool state for ever.
C32_StoppedAgentWithFileIsRemoved ==
  \A agent \in SyncAgents :
    (boot.serving /\ agent \in DOMAIN agents /\ agent \in activity
       /\ agent \notin containers /\ \A h \in Handlers : handlers[h].pc = "idle")
      ~> (agent \notin DOMAIN agents \/ agent \in containers)

\* C33: after verify device, verify bootstrap or verify backup restore has run, the
\* exit code is non-zero when the action's result had success=false or the action
\* threw, and is the exit code from before the command when the result had
\* success=true; the process exits with it.
C33_ExitCodeFollowsResult ==
  command.pc # "idle" /\ command.name \in VerifyCommands =>
    /\ command.outcome \in {"failure", "throws"} =>
         exitCode \notin {0, UndefinedExitCode}
    /\ command.outcome = "success" => exitCode = command.before
    /\ command.pc = "exited" =>
         (command.status # 0) = (exitCode \notin {0, UndefinedExitCode})

\* verify bootstrap returned success=false in JSON mode with the exit code unset
\* before, and the process has exited with a non-zero status.
C33_Witness ==
  /\ command.pc = "exited"
  /\ command.name = "verify bootstrap"
  /\ command.json
  /\ command.outcome = "failure"
  /\ command.before = UndefinedExitCode
  /\ command.status # 0

\* verify bootstrap returned success=true with exit code 0 before, which stays.
C33_WitnessSuccess ==
  /\ command.pc = "exited"
  /\ command.name = "verify bootstrap"
  /\ command.outcome = "success"
  /\ command.before = 0
  /\ command.status = 0

\* C34: with the own user id known, a membership event of a room whose state key is
\* the own user and whose membership is invite, and a Room lifecycle event whose own
\* membership is invite, each emit room.invite once for that room; the replay at the
\* end of start() emits room.invite once for every room whose own membership is
\* invite and for no other room, a joined room included.
C34_InviteEmittedAndReplayed ==
  [][selfUserId # "" =>
       \A room \in Rooms :
         /\ bridgeInput'.kind = "Event" /\ bridgeInput'.room = room
              /\ bridgeInput'.state_key = selfUserId
              /\ bridgeInput'.membership = "invite" =>
                roomEmits'[room].invite = roomEmits[room].invite + 1
         /\ bridgeInput'.kind = "Room" /\ bridgeInput'.room = room
              /\ bridgeInput'.membership = "invite" =>
                roomEmits'[room].invite = roomEmits[room].invite + 1
         /\ bridgeInput'.kind = "start" =>
              roomEmits'[room].invite =
                roomEmits[room].invite + (IF rooms[room] = "invite" THEN 1 ELSE 0)]_vars

\* start() has just replayed the invite of the pending room and nothing for the
\* joined room.
C34_Witness ==
  /\ bridgeInput.kind = "start"
  /\ started
  /\ selfUserId = BotUserId
  /\ rooms["!pending:example.org"] = "invite"
  /\ rooms["!joined:example.org"] = "join"
  /\ roomEmits["!pending:example.org"].invite = 1
  /\ roomEmits["!joined:example.org"].invite = 0

\* A membership invite for the own user has just been emitted as room.invite.
C34_WitnessEvent ==
  /\ bridgeInput.kind = "Event"
  /\ bridgeInput.state_key = selfUserId
  /\ bridgeInput.membership = "invite"
  /\ roomEmits[bridgeInput.room].invite = 1

\* A Room lifecycle event with invite membership has just been emitted as room.invite.
C34_WitnessRoom ==
  /\ bridgeInput.kind = "Room"
  /\ bridgeInput.membership = "invite"
  /\ bridgeInput.room \in Rooms
  /\ roomEmits[bridgeInput.room].invite = 1

\* room.invite is emitted by nothing else: not for another user's invite, not for a
\* membership other than invite, not while the own user id is unknown.
C34_NoOtherInvite ==
  [][\A room \in Rooms :
       roomEmits'[room].invite # roomEmits[room].invite =>
         /\ selfUserId # ""
         /\ \/ bridgeInput'.kind = "start" /\ rooms[room] = "invite"
            \/ /\ bridgeInput'.kind \in {"Event", "Room"}
               /\ bridgeInput'.room = room
               /\ bridgeInput'.membership = "invite"
               /\ bridgeInput'.kind = "Event" => bridgeInput'.state_key = selfUserId]_vars

\* C36: an event has at most one pending entry, with at most one timer and one retry
\* call of its own: an entry is created with attempts = 1, and only for an event
\* that has none; while the entry stays (failure signals for the tracked event
\* included) no entry is created for the event and its attempts do not decrease; the
\* attempts never exceed the cap of 8.
C36_OneEntryAttemptsGrow ==
  [][\A k \in Keys :
       /\ decryptRetries'[k].attempts <= MATRIX_DECRYPT_RETRY_MAX_ATTEMPTS
       /\ decryptRetries[k] = NoEntry /\ decryptRetries'[k] # NoEntry =>
            /\ decryptRetries'[k].attempts = 1
            /\ entriesCreated'[k] = entriesCreated[k] + 1
       /\ decryptRetries[k] # NoEntry /\ decryptRetries'[k] # NoEntry =>
            /\ decryptRetries'[k].attempts >= decryptRetries[k].attempts
            /\ entriesCreated'[k] = entriesCreated[k]
       /\ decryptRetries[k] # NoEntry => decryptRetries[k].attempts >= 1]_vars

\* The one entry of an event has reached attempts = 8 and waits for its last retry.
C36_Witness ==
  \E k \in Keys :
    /\ decryptRetries[k].attempts = MATRIX_DECRYPT_RETRY_MAX_ATTEMPTS
    /\ decryptRetries[k].timer
    /\ entriesCreated[k] = 1
    /\ sdkEvent[k] = "undecrypted"
    /\ k \in trackedEncryptedEvents

\* C37: within one restoreRoomKeyBackup call the load from secret storage and the
\* restore are each invoked at most once, the restore only after a non-null active
\* version was resolved, and loadedFromSecretStorage is true only after a load.
C37_LoadAndRestoreAtMostOnce ==
  api.op = "restoreRoomKeyBackup" \/ RestoreReturned =>
    /\ hist.loadCalls <= 1
    /\ hist.restoreCalls <= 1
    /\ hist.restoreCalls = 1 => Truthy(locals.backup.activeVersion)
    /\ locals.loadedFromSecretStorage => hist.loadCalls >= 1

\* The steps of restoreRoomKeyBackup itself, without the status query it ends with:
\* the recovery key is applied before the active version is first resolved; the load
\* from secret storage is invoked only after a resolve that found no active version,
\* and not a second time; the restore is invoked only after a resolve that gave a
\* non-null version, and once; loadedFromSecretStorage becomes true exactly when the
\* load returns.
C37_OwnStepsInOrder ==
  [][api.op = "restoreRoomKeyBackup" /\ api'.op = "restoreRoomKeyBackup" =>
       /\ api'.pc = "load" /\ api.pc # "load" =>
            /\ api.pc = "readActive"
            /\ ~locals.loadedFromSecretStorage
            /\ hist.restoreCalls = 0
            /\ hist'.loadCalls = 1
       /\ api'.pc = "restore" /\ api.pc # "restore" =>
            /\ api.pc = "readActive"
            /\ Truthy(locals'.backup.activeVersion)
            /\ hist'.restoreCalls = 1
       /\ locals'.loadedFromSecretStorage # locals.loadedFromSecretStorage =>
            /\ api.pc = "load"
            /\ api'.pc = "readActive"
            /\ locals'.loadedFromSecretStorage
       /\ api.pc = "load" /\ api'.pc = "readActive" => locals'.loadedFromSecretStorage
       /\ storedRecoveryKey' = storedRecoveryKey]_vars

\* A restore that loaded the key from secret storage, restored, and returned success.
C37_OwnStepsWitness ==
  /\ RestoreReturned
  /\ result.success
  /\ locals.loadedFromSecretStorage
  /\ hist.loadCalls = 1
  /\ hist.restoreCalls = 1

\* The load of restoreRoomKeyBackup was rejected, and the status query inside fail()
\* invoked the load a second time.
C37_SecondLoad ==
  /\ RestoreReturned
  /\ ~result.success
  /\ hist.stepFailed
  /\ ~locals.loadedFromSecretStorage
  /\ hist.restoreCalls = 0
  /\ hist.loadCalls = 2

\* C39: at any time at most one periodic persistence timer of the session is live:
\* the one idbPersistTimer refers to, and none besides it.
C39_OnePeriodicTimer == (IF idbPersistTimer THEN 1 ELSE 0) + leakedTimers <= 1

\* The part of C39 that holds: operations that run one after the other create one
\* timer; a second timer needs two initializations suspended at the same time.
C39_SecondTimerNeedsOverlap ==
  [][leakedTimers' > leakedTimers =>
       \E op \in Ops : pc[op] = "persistIdb" /\ idbPersistTimer /\ cryptoInitialized]_vars

\* Two timers are live and stop() has cleared the field: one keeps running.
C39_TimerSurvivesStop ==
  /\ stopCalls > 0
  /\ ~idbPersistTimer
  /\ leakedTimers > 0
  /\ \A op \in Ops : pc[op] = "idle"

C35_PendingEventuallyLeaves ==
  \A k \in Keys : (decryptRetries[k] # NoEntry) ~> (decryptRetries[k] = NoEntry)

\* An entry has left the pending map at the cap after its eight failed retries.
C35_Witness ==
  \E k \in Keys :
    /\ terminalCalls[k] = MATRIX_DECRYPT_RETRY_MAX_ATTEMPTS
    /\ decryptRetries[k] = NoEntry
    /\ inFlightCalls[k] = 0
    /\ sdkEvent[k] = "undecrypted"
    /\ stopCalls = 0

====
